---- MODULE Spec2Model ----
(***************************************************************************)
(* A model of the dataset ingestion and curation engine of application-cli *)
(* (StringMetrics, SemanticDeduplicator, ASTDetector, SpectrumAnalyzer,    *)
(* QualityScorer, DatasetPruner).  The components are synchronous methods  *)
(* without state of their own: a specification draws the arguments of one  *)
(* call in Init and its action runs the whole method.                      *)
(*                                                                         *)
(*   pc    "ready" before the call, "done" after it                        *)
(*   args  the arguments of the call                                       *)
(*   ret   the value the call returned (<<>> before the call)              *)
(*                                                                         *)
(* JavaScript strings are sequences of one-character strings.              *)
(***************************************************************************)
EXTENDS Integers, Sequences, FiniteSets, TLC

VARIABLES pc, args, ret

vars == <<pc, args, ret>>

(***************************************************************************)
(* Generic helpers                                                         *)
(***************************************************************************)
Min2(x, y) == IF x <= y THEN x ELSE y

Max2(x, y) == IF x >= y THEN x ELSE y

Abs(x) == IF x < 0 THEN -x ELSE x

Range(s) == {s[i] : i \in 1..Len(s)}

\* The sequence s with its elements computed once (a tuple, not a rule)
Eager(s) == s \o <<>>

\* F(v), with the value v computed once, however often F reads it
Once(F(_), v) == CHOOSE y \in {F(x) : x \in {v}} : TRUE

\* Number of elements of seq that satisfy Test
CountWhere(seq, Test(_)) == Len(SelectSeq(seq, Test))

\* All sequences over S of length 0..n
SeqsUpTo(S, n) == UNION {[1..k -> S] : k \in 0..n}

\* String.prototype.toLowerCase on one character
LowerChar(c) ==
  CASE c = "A" -> "a" [] c = "B" -> "b" [] c = "C" -> "c" [] c = "D" -> "d"
    [] c = "E" -> "e" [] c = "F" -> "f" [] c = "G" -> "g" [] c = "H" -> "h"
    [] c = "I" -> "i" [] c = "J" -> "j" [] c = "K" -> "k" [] c = "L" -> "l"
    [] c = "M" -> "m" [] c = "N" -> "n" [] c = "O" -> "o" [] c = "P" -> "p"
    [] c = "Q" -> "q" [] c = "R" -> "r" [] c = "S" -> "s" [] c = "T" -> "t"
    [] c = "U" -> "u" [] c = "V" -> "v" [] c = "W" -> "w" [] c = "X" -> "x"
    [] c = "Y" -> "y" [] c = "Z" -> "z" [] OTHER -> c

\* String.prototype.toLowerCase
toLowerCase(s) == Eager([i \in 1..Len(s) |-> LowerChar(s[i])])

(***************************************************************************)
(* StringMetrics.damerauLevenshtein                                        *)
(***************************************************************************)
\* Bound: longest string drawn for the edit-distance calls
MaxLen == 3

\* Alphabet of the strings drawn for the edit-distance calls
Alphabet == {"a", "b"}

\* da.get(ch) || 0 : the Map starts empty, so a missing key reads 0
daGet(da, ch) == IF ch \in DOMAIN da THEN da[ch] ELSE 0

\* da.set(ch, i)
daSet(da, ch, i) == [c \in (DOMAIN da) \cup {ch} |-> IF c = ch THEN i ELSE da[c]]

\* The four-way Math.min of the inner loop body, with the operands of the code
CellValue(H, i, j, i1, j1, cost) ==
  Min2(Min2(H[i][j + 1] + cost, H[i + 1][j] + 1),
       Min2(H[i][j] + 1, H[i1][j1] + (i - i1 - 1) + 1 + (j - j1 - 1)))

\* for (let j = 1; j <= bLen; j++) { ... } of row i, carrying H and db
RECURSIVE InnerLoop(_, _, _, _, _, _, _)
InnerLoop(a, b, i, j, H, da, db) ==
  IF j > Len(b) THEN H
  ELSE LET i1   == daGet(da, b[j])
           j1   == db
           cost == IF a[i] = b[j] THEN 0 ELSE 1
           db2  == IF cost = 0 THEN j ELSE db
           H2   == [H EXCEPT ![i + 1][j + 1] = CellValue(H, i, j, i1, j1, cost)]
       IN  InnerLoop(a, b, i, j + 1, H2, da, db2)

\* for (let i = 1; i <= aLen; i++) { db = 0; ...; da.set(a[i - 1], i) }
RECURSIVE OuterLoop(_, _, _, _, _)
OuterLoop(a, b, i, H, da) ==
  IF i > Len(a) THEN H
  ELSE OuterLoop(a, b, i + 1, InnerLoop(a, b, i, 1, H, da, 0), daSet(da, a[i], i))

\* The table H after the two initialisation loops (rows/columns 0 and 1)
InitialH(a, b) ==
  LET maxDist == Len(a) + Len(b)
  IN  [r \in 0..(Len(a) + 1) |->
        [c \in 0..(Len(b) + 1) |->
          IF r = 0 \/ c = 0 THEN maxDist
          ELSE IF c = 1 THEN r - 1
          ELSE IF r = 1 THEN c - 1
          ELSE maxDist]]

damerauLevenshtein(a, b) ==
  OuterLoop(a, b, 1, InitialH(a, b), <<>>)[Len(a) + 1][Len(b) + 1]

\* The restricted (optimal string alignment) distance between the prefixes
\* of lengths i and j: the textbook recurrence, the reference of the claims.
RECURSIVE RestrictedDistance(_, _, _, _)
RestrictedDistance(a, b, i, j) ==
  IF i = 0 THEN j
  ELSE IF j = 0 THEN i
  ELSE LET cost == IF a[i] = b[j] THEN 0 ELSE 1
           base == Min2(Min2(RestrictedDistance(a, b, i - 1, j) + 1,
                             RestrictedDistance(a, b, i, j - 1) + 1),
                        RestrictedDistance(a, b, i - 1, j - 1) + cost)
       IN  IF i > 1 /\ j > 1 /\ a[i] = b[j - 1] /\ a[i - 1] = b[j]
           THEN Min2(base, RestrictedDistance(a, b, i - 2, j - 2) + 1)
           ELSE base

kitten == <<"k", "i", "t", "t", "e", "n">>

sitting == <<"s", "i", "t", "t", "i", "n", "g">>

\* The string pairs an edit-distance call is drawn from
EditInputs ==
  (SeqsUpTo(Alphabet, MaxLen) \X SeqsUpTo(Alphabet, MaxLen)) \cup {<<kitten, sitting>>}

InitEdit ==
  /\ pc = "ready"
  /\ \E p \in EditInputs : args = [a |-> p[1], b |-> p[2]]
  /\ ret = <<>>

\* One call StringMetrics.damerauLevenshtein(a, b)
DamerauLevenshtein ==
  /\ pc = "ready"
  /\ pc' = "done"
  /\ ret' = damerauLevenshtein(args.a, args.b)
  /\ UNCHANGED args

NextEdit == DamerauLevenshtein

SpecEdit == InitEdit /\ [][NextEdit]_vars

\* C3: the distance of every string to itself is 0.
C3_SelfDistanceZero ==
  (pc = "done" /\ args.a = args.b) => ret = 0

\* C4: the computed distance equals the restricted Damerau-Levenshtein
\* distance (minimum number of insertions, deletions, substitutions and
\* adjacent transpositions); kitten/sitting gives 3 and ab/ba gives 1.
C4_MatchesRestrictedDistance ==
  pc = "done" => ret = RestrictedDistance(args.a, args.b, Len(args.a), Len(args.b))

(***************************************************************************)
(* SemanticDeduplicator                                                    *)
(***************************************************************************)
\* Bound: longest color list drawn for a deduplicate call
MaxColors == 3

\* hex values and names of the records drawn for a deduplicate call
HexPool == {<<"#", "f", "0", "0">>, <<"#", "F", "0", "0">>, <<"#", "0", "f", "0">>}

NamePool == {<<>>, <<"a", "b">>, <<"A", "b">>, <<"b">>}

ColorPool == [hex : HexPool, name : NamePool]

\* The priorityColors arguments drawn: none, or one record that differs in
\* case from the pool's records
PriorityPool == {<<>>, <<[hex |-> <<"#", "F", "0", "0">>, name |-> <<"a", "B">>]>>}

\* Values the name-semantics collaborator returns (range 0..100)
SemanticScores == {0, 100}

\* The oracles drawn: every name scores 0, or one non-empty name scores 100
OraclePool ==
  {[n \in NamePool |-> 0]}
    \cup {[n \in NamePool |-> IF n = fav THEN 100 ELSE 0] : fav \in NamePool \ {<<>>}}

\* SemanticAnalyzer.scoreSemanticMatch(color): an opaque oracle; the call's
\* oracle is drawn as a function of the color's name
scoreSemanticMatch(oracle, color) == oracle[color.name]

\* The increasing sequence of the indices 1..n that satisfy Test
IndicesWhere(n, Test(_)) == SelectSeq([i \in 1..n |-> i], Test)

\* The groups of a Map<string, ColorData[]> filled by one pass over seq, in
\* the Map's iteration order (insertion order of the keys); keys[i] is the
\* key of seq[i] and skip[i] holds for the elements the pass skips
GroupsOf(seq, keys, skip) ==
  LET first == IndicesWhere(Len(seq),
                 LAMBDA i : ~skip[i] /\ \A j \in 1..(i - 1) : skip[j] \/ keys[j] # keys[i])
  IN  Eager([g \in 1..Len(first) |->
        LET members == IndicesWhere(Len(seq),
                         LAMBDA i : ~skip[i] /\ keys[i] = keys[first[g]])
        IN  [key |-> keys[first[g]],
             group |-> Eager([m \in 1..Len(members) |-> seq[members[m]]])]])

\* priorityColors.some(pc => same hex and same name, ignoring case)
InPriority(color, priorityColors) ==
  \E k \in 1..Len(priorityColors) :
    /\ toLowerCase(priorityColors[k].hex) = toLowerCase(color.hex)
    /\ toLowerCase(priorityColors[k].name) = toLowerCase(color.name)

\* The minDistance loop of calculateScore: the least distance from the name
\* of group[idx] to the name of another member (other === color skips the
\* member itself); a group has at least two members here
MinNameDistance(group, idx) ==
  LET ds == {damerauLevenshtein(group[idx].name, group[k].name) :
               k \in (1..Len(group)) \ {idx}}
  IN  CHOOSE d \in ds : \A e \in ds : d <= e

\* Variant of calculateScore with a priority bonus of 30 in place of 60
calculateScoreBonus30(color, group, idx, priorityColors, oracle) ==
  LET priorityBonus == IF InPriority(color, priorityColors) THEN 30 * 20 ELSE 0
      semanticScore == scoreSemanticMatch(oracle, color)
      minDistance   == MinNameDistance(group, idx)
      lengthScore   == Max2(0, 10 - Abs(Len(color.name) - 10))
      priorityScore == (Len(group) - (idx - 1)) * 5
  IN  priorityBonus
      + semanticScore * 6
      + Min2(minDistance * 10, 100) * 3
      + lengthScore * 2
      + priorityScore

\* calculateScore, in twentieths (every term is a multiple of 0.05);
\* idx is the 1-based position, index = idx - 1 the position the code uses
calculateScore(color, group, idx, priorityColors, oracle) ==
  LET priorityBonus == IF InPriority(color, priorityColors) THEN 60 * 20 ELSE 0
      semanticScore == scoreSemanticMatch(oracle, color)
      minDistance   == MinNameDistance(group, idx)
      lengthScore   == Max2(0, 10 - Abs(Len(color.name) - 10))
      priorityScore == (Len(group) - (idx - 1)) * 5
  IN  priorityBonus
      + semanticScore * 6
      + Min2(minDistance * 10, 100) * 3
      + lengthScore * 2
      + priorityScore

\* Variant of SortByScoreDesc that puts the later of two equal scores first
SortByScoreDescLaterFirst(seq, score) ==
  LET ahead(i) == Cardinality({j \in 1..Len(seq) :
                    score[j] > score[i] \/ (score[j] = score[i] /\ j > i)})
  IN  Eager([p \in 1..Len(seq) |-> seq[CHOOSE i \in 1..Len(seq) : ahead(i) = p - 1]])

\* scores.sort((a, b) => b.score - a.score): Array.prototype.sort is stable,
\* so position p holds the element with p - 1 elements ahead of it: those of
\* greater score and those of equal score listed before it
SortByScoreDesc(seq, score) ==
  LET ahead(i) == Cardinality({j \in 1..Len(seq) :
                    score[j] > score[i] \/ (score[j] = score[i] /\ j < i)})
  IN  Eager([p \in 1..Len(seq) |-> seq[CHOOSE i \in 1..Len(seq) : ahead(i) = p - 1]])

selectBestName(group, priorityColors, oracle) ==
  LET score == Eager([i \in 1..Len(group) |->
                 calculateScore(group[i], group, i, priorityColors, oracle)])
  IN  SortByScoreDesc(group, score)[1]

\* reasons.join(' | ') of getSelectionReason, as the list of its parts
getSelectionReason(group, winner, priorityColors, oracle) ==
  LET names == {group[i].name : i \in 1..Len(group)}
      semanticScore == scoreSemanticMatch(oracle, winner)
  IN  (IF InPriority(winner, priorityColors) THEN <<"Priority dataset">> ELSE <<>>)
      \o (IF <<"g", "r", "a", "y">> \in names /\ <<"g", "r", "e", "y">> \in names
          THEN <<"CSS standard">> ELSE <<>>)
      \o (IF semanticScore > 50 THEN <<"Semantic">> ELSE <<>>)

\* nameGroup.map(c => c.hex).join(', ')
RECURSIVE JoinHex(_, _)
JoinHex(group, i) ==
  IF i > Len(group) THEN <<>>
  ELSE group[i].hex \o (IF i < Len(group) THEN <<",", " ">> ELSE <<>>) \o JoinHex(group, i + 1)

\* The winners of a list of groups, in group order
WinnersOf(groups, priorityColors, oracle) ==
  Eager([g \in 1..Len(groups) |->
    IF Len(groups[g].group) = 1 THEN groups[g].group[1]
    ELSE selectBestName(groups[g].group, priorityColors, oracle)])

\* DuplicatesOf recording only the names of the losers
DuplicatesOfLosersOnly(groups, priorityColors, oracle, tag) ==
  LET multi == IndicesWhere(Len(groups), LAMBDA g : Len(groups[g].group) # 1)
  IN  Eager([d \in 1..Len(multi) |->
        LET grp    == groups[multi[d]].group
            winner == selectBestName(grp, priorityColors, oracle)
            losers == SelectSeq(grp, LAMBDA c : c # winner)
        IN  [hex      |-> IF tag = "HEX" THEN groups[multi[d]].key ELSE JoinHex(grp, 1),
             names    |-> Eager([i \in 1..Len(losers) |-> losers[i].name]),
             selected |-> winner.name,
             reason   |-> getSelectionReason(grp, winner, priorityColors, oracle)
                          \o <<tag>>]])

\* The DuplicateGroup records of the multi-member groups, in group order
DuplicatesOf(groups, priorityColors, oracle, tag) ==
  LET multi == IndicesWhere(Len(groups), LAMBDA g : Len(groups[g].group) # 1)
  IN  Eager([d \in 1..Len(multi) |->
        LET grp    == groups[multi[d]].group
            winner == selectBestName(grp, priorityColors, oracle)
        IN  [hex      |-> IF tag = "HEX" THEN groups[multi[d]].key ELSE JoinHex(grp, 1),
             names    |-> Eager([i \in 1..Len(grp) |-> grp[i].name]),
             selected |-> winner.name,
             reason   |-> getSelectionReason(grp, winner, priorityColors, oracle)
                          \o <<tag>>]])

\* Variant of deduplicate that stops after the hex phase
deduplicateHexOnly(colors, priorityColors, oracle) ==
  LET hexGroups == GroupsOf(colors,
                     Eager([i \in 1..Len(colors) |-> toLowerCase(colors[i].hex)]),
                     Eager([i \in 1..Len(colors) |-> FALSE]))
      hexWinners == WinnersOf(hexGroups, priorityColors, oracle)
  IN  [colors |-> hexWinners,
       stats |-> DuplicatesOf(hexGroups, priorityColors, oracle, "HEX"),
       hexWinners |-> hexWinners]

\* deduplicate(colors, priorityColors); hexWinners is kept beside the result
deduplicate(colors, priorityColors, oracle) ==
  LET hexGroups == GroupsOf(colors,
                     Eager([i \in 1..Len(colors) |-> toLowerCase(colors[i].hex)]),
                     Eager([i \in 1..Len(colors) |-> FALSE]))
      hexWinners    == WinnersOf(hexGroups, priorityColors, oracle)
      hexDuplicates == DuplicatesOf(hexGroups, priorityColors, oracle, "HEX")
      nameGroups == GroupsOf(hexWinners,
                      Eager([i \in 1..Len(hexWinners) |-> toLowerCase(hexWinners[i].name)]),
                      Eager([i \in 1..Len(hexWinners) |-> hexWinners[i].name = <<>>]))
  IN  IF Len(nameGroups) = 0
      THEN [colors |-> hexWinners, stats |-> hexDuplicates, hexWinners |-> hexWinners]
      ELSE [colors |-> WinnersOf(nameGroups, priorityColors, oracle),
            stats  |-> hexDuplicates
                       \o DuplicatesOf(nameGroups, priorityColors, oracle, "NAME"),
            hexWinners |-> hexWinners]

InitDedup ==
  /\ pc = "ready"
  /\ \E cs \in SeqsUpTo(ColorPool, MaxColors), pr \in PriorityPool,
        oracle \in OraclePool :
       args = [colors |-> cs, priorityColors |-> pr, oracle |-> oracle]
  /\ ret = <<>>

\* One call SemanticDeduplicator.deduplicate(colors, priorityColors)
Deduplicate ==
  /\ pc = "ready"
  /\ pc' = "done"
  /\ ret' = deduplicate(args.colors, args.priorityColors, args.oracle)
  /\ UNCHANGED args

NextDedup == Deduplicate

SpecDedup == InitDedup /\ [][NextDedup]_vars

\* The lower-cased hex values that occur at least twice in the input
SharedHexes(colors) ==
  {h \in {toLowerCase(colors[i].hex) : i \in 1..Len(colors)} :
     CountWhere(colors, LAMBDA c : toLowerCase(c.hex) = h) >= 2}

\* The names of the input records of lower-cased hex h, in input order
NamesOfHex(colors, h) ==
  LET members == SelectSeq(colors, LAMBDA c : toLowerCase(c.hex) = h)
  IN  [i \in 1..Len(members) |-> members[i].name]

\* The HEX-tagged DuplicateGroups recorded for the lower-cased hex h
HexGroupsFor(stats, h) ==
  SelectSeq(stats, LAMBDA d : d.hex = h /\ d.reason[Len(d.reason)] = "HEX")

NoSharedHex(colors) ==
  \A i, j \in 1..Len(colors) :
    i # j => toLowerCase(colors[i].hex) # toLowerCase(colors[j].hex)

NoSharedName(colors) ==
  \A i, j \in 1..Len(colors) :
    i # j => toLowerCase(colors[i].name) # toLowerCase(colors[j].name)

\* C2: a list without a shared hex and without a shared name (here: not even
\* up to letter case) comes back with the same length and the same members,
\* and no DuplicateGroup is recorded.
C2_NoDuplicatesUnchanged ==
  (pc = "done" /\ NoSharedHex(args.colors) /\ NoSharedName(args.colors)) =>
    /\ Len(ret.colors) = Len(args.colors)
    /\ Range(ret.colors) = Range(args.colors)
    /\ ret.stats = <<>>

\* C6 as stated: of k >= 2 input records with the same lower-cased hex
\* exactly one is in the output, with one HEX group listing all k names in
\* input order and selecting the kept record's name.  Stated for inputs
\* without an empty name.
C6_KeepsExactlyOne ==
  (pc = "done" /\ \A i \in 1..Len(args.colors) : args.colors[i].name # <<>>) =>
    \A h \in SharedHexes(args.colors) :
      /\ CountWhere(ret.colors, LAMBDA c : toLowerCase(c.hex) = h) = 1
      /\ Len(HexGroupsFor(ret.stats, h)) = 1
      /\ HexGroupsFor(ret.stats, h)[1].names = NamesOfHex(args.colors, h)
      /\ \E k \in 1..Len(ret.colors) :
           /\ toLowerCase(ret.colors[k].hex) = h
           /\ ret.colors[k].name = HexGroupsFor(ret.stats, h)[1].selected

\* C6 amended: of k >= 2 input records with the same lower-cased hex exactly
\* one is the Phase-1 winner and at most one is in the output (the winner,
\* unless the name phase removes it); one HEX group is recorded, listing all
\* k names in input order and selecting the winner's name.
C6_OneWinnerAtMostOneKept ==
  pc = "done" =>
    \A h \in SharedHexes(args.colors) :
      /\ CountWhere(ret.hexWinners, LAMBDA c : toLowerCase(c.hex) = h) = 1
      /\ CountWhere(ret.colors, LAMBDA c : toLowerCase(c.hex) = h) <= 1
      /\ Len(HexGroupsFor(ret.stats, h)) = 1
      /\ HexGroupsFor(ret.stats, h)[1].names = NamesOfHex(args.colors, h)
      /\ \A k \in 1..Len(ret.hexWinners) :
           toLowerCase(ret.hexWinners[k].hex) = h =>
             /\ ret.hexWinners[k] \in Range(args.colors)
             /\ ret.hexWinners[k].name = HexGroupsFor(ret.stats, h)[1].selected
             /\ \A m \in 1..Len(ret.colors) :
                  toLowerCase(ret.colors[m].hex) = h => ret.colors[m] = ret.hexWinners[k]

\* A call that collapsed three records of one hex, two of them with the same
\* name, and kept the winner
C6_Witness ==
  /\ pc = "done"
  /\ \E h \in SharedHexes(args.colors) :
       /\ Len(NamesOfHex(args.colors, h)) = 3
       /\ Cardinality(Range(NamesOfHex(args.colors, h))) = 2
       /\ CountWhere(ret.colors, LAMBDA c : toLowerCase(c.hex) = h) = 1

\* C7: every Phase-1 winner with an empty name is in the final output.
C7_EmptyNameSurvives ==
  pc = "done" =>
    \A i \in 1..Len(ret.hexWinners) :
      ret.hexWinners[i].name = <<>> => ret.hexWinners[i] \in Range(ret.colors)

(***************************************************************************)
(* ASTDetector                                                             *)
(*                                                                         *)
(* A JavaScript value is a record [t, s, keys, vals]: t is "null",         *)
(* "undefined", "number", "string", "array" or "object"; s holds the       *)
(* characters of a string (of String(n) for a number); vals holds the      *)
(* items of an array or the property values of an object, keys the         *)
(* property names of an object in insertion order.                         *)
(***************************************************************************)
\* Bound: most items of an array drawn for a detect call
MaxItems == 3

\* Bound: most properties of an object drawn for a detect call
MaxEntries == 5

JsNull == [t |-> "null", s |-> <<>>, keys |-> <<>>, vals |-> <<>>]

JsUndefined == [t |-> "undefined", s |-> <<>>, keys |-> <<>>, vals |-> <<>>]

JsNumber(digits) == [t |-> "number", s |-> digits, keys |-> <<>>, vals |-> <<>>]

JsString(chars) == [t |-> "string", s |-> chars, keys |-> <<>>, vals |-> <<>>]

JsArray(items) == [t |-> "array", s |-> <<>>, keys |-> <<>>, vals |-> items]

JsObject(ks, vs) == [t |-> "object", s |-> <<>>, keys |-> ks, vals |-> vs]

\* The property names the detectors read
NameKey == <<"n", "a", "m", "e">>

HexKey == <<"h", "e", "x">>

MetaKey == <<"m", "e", "t", "a">>

FamilyKey == <<"f", "a", "m", "i", "l", "y">>

HslKey == <<"h", "s", "l">>

ColorKey == <<"c", "o", "l", "o", "r">>

\* typeof v
typeof(v) ==
  CASE v.t = "string" -> "string"
    [] v.t = "number" -> "number"
    [] v.t = "undefined" -> "undefined"
    [] OTHER -> "object"

\* Array.isArray(v)
IsArray(v) == v.t = "array"

\* 'k' in v, for a non-array object v
HasKey(v, k) == \E i \in 1..Len(v.keys) : v.keys[i] = k

\* v.k : the property k of v (undefined when v has none; v is not null)
Prop(v, k) ==
  IF v.t = "object" /\ HasKey(v, k)
  THEN v.vals[CHOOSE i \in 1..Len(v.keys) : v.keys[i] = k]
  ELSE JsUndefined

\* ToBoolean(v)
Truthy(v) ==
  CASE v.t \in {"null", "undefined"} -> FALSE
    [] v.t = "string" -> v.s # <<>>
    [] v.t = "number" -> v.s # <<"0">>
    [] OTHER -> TRUE

\* String(v): Array.prototype.join turns null and undefined items into ""
RECURSIVE StringOf(_)
RECURSIVE JoinItems(_, _)
JoinItems(items, i) ==
  IF i > Len(items) THEN <<>>
  ELSE (IF items[i].t \in {"null", "undefined"} THEN <<>> ELSE StringOf(items[i]))
       \o (IF i < Len(items) THEN <<",">> ELSE <<>>)
       \o JoinItems(items, i + 1)

StringOf(v) ==
  CASE v.t = "null" -> <<"n", "u", "l", "l">>
    [] v.t = "undefined" -> <<"u", "n", "d", "e", "f", "i", "n", "e", "d">>
    [] v.t \in {"string", "number"} -> v.s
    [] v.t = "array" -> JoinItems(v.vals, 1)
    [] OTHER -> <<"[", "o", "b", "j", "e", "c", "t", " ", "O", "b", "j", "e", "c", "t", "]">>

\* [0-9a-f] under the i flag
IsHexDigit(c) ==
  c \in {"0", "1", "2", "3", "4", "5", "6", "7", "8", "9",
         "a", "b", "c", "d", "e", "f", "A", "B", "C", "D", "E", "F"}

\* /^[0-9a-f]{lo,hi}$/i.test(chars)
HexDigits(chars, lo, hi) ==
  /\ Len(chars) >= lo
  /\ Len(chars) <= hi
  /\ \A i \in 1..Len(chars) : IsHexDigit(chars[i])

\* /^#?[0-9a-f]{lo,hi}$/i.test(chars)
HashHex(chars, lo, hi) ==
  IF chars # <<>> /\ chars[1] = "#"
  THEN HexDigits(Tail(chars), lo, hi)
  ELSE HexDigits(chars, lo, hi)

\* A confidence: the double nearest to num/den, or the double just above it
\* when up = 1 (the sums 0.3 + n * 0.1 and 0.4 + 0.2 round upwards), or NaN
Conf(n, d) == [num |-> n, den |-> d, up |-> 0, nan |-> FALSE]

ConfUp(n, d, u) == [num |-> n, den |-> d, up |-> u, nan |-> FALSE]

ConfNaN == [num |-> 0, den |-> 0, up |-> 0, nan |-> TRUE]

\* x > y on doubles (false when either is NaN)
ConfGreater(x, y) ==
  /\ ~x.nan
  /\ ~y.nan
  /\ \/ x.num * y.den > y.num * x.den
     \/ x.num * y.den = y.num * x.den /\ x.up > y.up

\* typeof data !== 'object' || Array.isArray(data) || !Object.keys(data).length
NotKeyedObject(data) == typeof(data) # "object" \/ IsArray(data) \/ Len(data.keys) = 0

\* The filter predicate of isColorPaletteRecord (sample?.name is undefined
\* for null and for values without the property)
ValidColor(sample) ==
  /\ typeof(Prop(sample, NameKey)) = "string"
  /\ typeof(Prop(sample, HexKey)) = "string"
  /\ HexDigits(Prop(sample, HexKey).s, 6, 6)

isColorPaletteRecord(data) ==
  IF NotKeyedObject(data) THEN FALSE
  ELSE LET validColors == SelectSeq(data.vals, ValidColor)
       IN  Len(validColors) * 5 >= Len(data.vals) * 4

\* values.every(...) of isJsonObjectFormat from value i on: "true", "false",
\* or "throw" when it reads sample.name of a null sample
RECURSIVE EveryJsonObject(_, _)
EveryJsonObject(values, i) ==
  IF i > Len(values) THEN "true"
  ELSE LET sample == values[i]
       IN  IF typeof(sample) # "object" \/ IsArray(sample) THEN "false"
           ELSE IF sample.t = "null" THEN "throw"
           ELSE IF /\ typeof(Prop(sample, NameKey)) = "string"
                   /\ typeof(Prop(sample, HexKey)) = "string"
                   /\ Len(Prop(sample, NameKey).s) > 0
                   /\ HexDigits(Prop(sample, HexKey).s, 6, 6)
                THEN EveryJsonObject(values, i + 1)
                ELSE "false"

isJsonObjectFormat(data) ==
  IF NotKeyedObject(data) THEN "false" ELSE EveryJsonObject(data.vals, 1)

isIterable(data) ==
  \/ IsArray(data)
  \/ Truthy(data) /\ data.t \in {"string", "array"}
  \/ typeof(data) = "object" /\ data.t # "null" /\ ~IsArray(data)

\* The every predicate of isHexStringPairs
IsHexStringPair(item) ==
  IF ~IsArray(item) \/ Len(item.vals) # 2 THEN FALSE
  ELSE LET a == item.vals[1]
           b == item.vals[2]
           aIsHex == HashHex(StringOf(a), 3, 8)
           bIsHex == HashHex(StringOf(b), 3, 8)
           aIsString == typeof(a) = "string"
           bIsString == typeof(b) = "string"
       IN  (aIsHex /\ bIsString) \/ (aIsString /\ bIsHex)

isHexStringPairs(data) ==
  IsArray(data) /\ \A i \in 1..Len(data.vals) : IsHexStringPair(data.vals[i])

\* 0.8 + (hexCount / total) * 0.2; 0 / 0 is NaN
scoreHexStringPairs(data) ==
  LET total == Len(data.vals)
      hexCount == CountWhere(data.vals,
                    LAMBDA item : \/ HashHex(StringOf(item.vals[1]), 6, 8)
                                  \/ HashHex(StringOf(item.vals[2]), 6, 8))
  IN  IF total = 0 THEN ConfNaN ELSE Conf(4 * total + hexCount, 5 * total)

\* An entry test that reads the value alone: the hex is the value
HexEntryByValue(key, value, lo, hi) == HashHex(StringOf(value), lo, hi)

\* The entry test of isObjectEntries (lo..hi = 6..8) and of
\* scoreObjectEntries (6..6); a property name is always a string
HexEntry(key, value, lo, hi) ==
  \/ HashHex(key, lo, hi) /\ typeof(value) = "string"
  \/ HashHex(StringOf(value), lo, hi)

isObjectEntries(data) ==
  /\ typeof(data) = "object"
  /\ ~IsArray(data)
  /\ data.t # "null"
  /\ Len(data.keys) > 0
  /\ \E i \in 1..Len(data.keys) : HexEntry(data.keys[i], data.vals[i], 6, 8)

scoreObjectEntries(data) ==
  LET validPairs == {i \in 1..Len(data.keys) : HexEntry(data.keys[i], data.vals[i], 6, 6)}
  IN  Conf(Cardinality(validPairs), Max2(1, Len(data.keys)))

\* data.every(...) of isArrayOfObjects from item i on: "true", "false", or
\* "throw" when it evaluates 'hex' in item for a null item
RECURSIVE EveryColorObject(_, _)
EveryColorObject(items, i) ==
  IF i > Len(items) THEN "true"
  ELSE LET item == items[i]
       IN  IF typeof(item) # "object" \/ IsArray(item) THEN "false"
           ELSE IF item.t = "null" THEN "throw"
           ELSE IF HasKey(item, HexKey) \/ HasKey(item, NameKey)
                THEN EveryColorObject(items, i + 1)
                ELSE "false"

isArrayOfObjects(data) ==
  IF IsArray(data) /\ Len(data.vals) > 0 THEN EveryColorObject(data.vals, 1) ELSE "false"

\* score += 0.4, 0.4, 0.2 from the first item; 0.4 + 0.2 is the double
\* above 0.6
scoreArrayOfObjects(data) ==
  IF Len(data.vals) = 0 THEN Conf(0, 10)
  ELSE LET sample == data.vals[1]
           hasHex  == IF HasKey(sample, HexKey) THEN 4 ELSE 0
           hasName == IF HasKey(sample, NameKey) THEN 4 ELSE 0
           extra   == IF HasKey(sample, FamilyKey) \/ HasKey(sample, HslKey) THEN 2 ELSE 0
       IN  ConfUp(Min2(hasHex + hasName + extra, 10), 10,
                  IF hasHex + hasName = 4 /\ extra = 2 THEN 1 ELSE 0)

\* Array.isArray(v) && v.length > 0 && typeof v[0] === 'object'
IsObjectArray(v) == IsArray(v) /\ Len(v.vals) > 0 /\ typeof(v.vals[1]) = "object"

\* Object.values(data).some(...) of isStructuredFormat from value i on:
\* "true", "false", or "throw" when it reads v[0].hex of a null v[0]
RECURSIVE SomeColorArray(_, _)
SomeColorArray(values, i) ==
  IF i > Len(values) THEN "false"
  ELSE LET v == values[i]
       IN  IF ~IsObjectArray(v) THEN SomeColorArray(values, i + 1)
           ELSE IF v.vals[1].t = "null" THEN "throw"
           ELSE IF Truthy(Prop(v.vals[1], HexKey)) \/ Truthy(Prop(v.vals[1], ColorKey))
                THEN "true"
                ELSE SomeColorArray(values, i + 1)

isStructuredFormat(data) ==
  IF typeof(data) = "object" /\ data.t # "null" /\ ~IsArray(data) /\ HasKey(data, MetaKey)
  THEN SomeColorArray(data.vals, 1)
  ELSE "false"

\* Math.min(hasMeta + hasColorArrays * 0.1, 1); for 3 and for 6 arrays the
\* sum is the double above 0.6 and 0.9
scoreStructuredFormat(data) ==
  LET hasMeta == IF HasKey(data, MetaKey) THEN 3 ELSE 0
      hasColorArrays == CountWhere(data.vals, IsObjectArray)
  IN  ConfUp(Min2(hasMeta + hasColorArrays, 10), 10,
             IF hasMeta = 3 /\ hasColorArrays \in {3, 6} THEN 1 ELSE 0)

\* detect returning the structures in detector order, unsorted
SortByConfidenceDescOmitted(structures) == structures

\* structures.sort((a, b) => b.confidence - a.confidence): stable, and a
\* NaN difference compares as equal
SortByConfidenceDesc(structures) ==
  LET before(j, i) ==
        \/ ConfGreater(structures[j].confidence, structures[i].confidence)
        \/ /\ ~ConfGreater(structures[i].confidence, structures[j].confidence)
           /\ j < i
      ahead(i) == Cardinality({j \in 1..Len(structures) : before(j, i)})
  IN  Eager([p \in 1..Len(structures) |->
        structures[CHOOSE i \in 1..Len(structures) : ahead(i) = p - 1]])

\* The pushes of detect, in detector order
DetectedStructures(data) ==
  (IF isColorPaletteRecord(data)
   THEN <<[type |-> "color-palette", confidence |-> Conf(98, 100)]>> ELSE <<>>)
  \o (IF isJsonObjectFormat(data) = "true"
      THEN <<[type |-> "json", confidence |-> Conf(95, 100)]>> ELSE <<>>)
  \o (IF isHexStringPairs(data)
      THEN <<[type |-> "pairs", confidence |-> scoreHexStringPairs(data)]>> ELSE <<>>)
  \o (IF isObjectEntries(data)
      THEN <<[type |-> "object", confidence |-> scoreObjectEntries(data)]>> ELSE <<>>)
  \o (IF isArrayOfObjects(data) = "true"
      THEN <<[type |-> "objects", confidence |-> scoreArrayOfObjects(data)]>> ELSE <<>>)
  \o (IF isStructuredFormat(data) = "true"
      THEN <<[type |-> "structured", confidence |-> scoreStructuredFormat(data)]>>
      ELSE <<>>)

\* detect(data): the returned list (type and confidence of each structure),
\* or threw = TRUE when a detector raises a TypeError
detect(data) ==
  IF data.t \in {"null", "undefined"} \/ ~isIterable(data)
  THEN [threw |-> FALSE,
        structures |-> <<[type |-> "unknown", confidence |-> Conf(0, 1)]>>]
  ELSE IF \/ isJsonObjectFormat(data) = "throw"
          \/ isArrayOfObjects(data) = "throw"
          \/ isStructuredFormat(data) = "throw"
       THEN [threw |-> TRUE, structures |-> <<>>]
       ELSE [threw |-> FALSE,
             structures |-> SortByConfidenceDesc(DetectedStructures(data))]

Red == <<"R", "e", "d">>

Hex6 == <<"f", "f", "0", "0", "0", "0">>

HashHex6 == <<"#", "f", "f", "0", "0", "0", "0">>

HashHex3 == <<"#", "f", "0", "0">>

\* {name: "Red", hex: "ff0000"}
NamedColor == JsObject(<<NameKey, HexKey>>, <<JsString(Red), JsString(Hex6)>>)

\* {name: "", hex: "ff0000"}
UnnamedColor == JsObject(<<NameKey, HexKey>>, <<JsString(<<>>), JsString(Hex6)>>)

\* {hex: "#ff0000", family: "red"}
FamilyColor ==
  JsObject(<<HexKey, FamilyKey>>, <<JsString(HashHex6), JsString(<<"r", "e", "d">>)>>)

\* The items drawn for an array passed to detect
ArrayItemPool ==
  { JsNull, JsString(Red), NamedColor, FamilyColor, JsObject(<<>>, <<>>),
    JsArray(<<JsString(HashHex6), JsString(Red)>>),
    JsArray(<<JsString(Red), JsString(HashHex3)>>),
    JsArray(<<JsString(HashHex6), JsString(HashHex3)>>),
    JsArray(<<JsNumber(<<"1", "2", "3">>), JsString(Red)>>),
    JsArray(<<JsString(Red), JsString(Red)>>) }

\* The property values drawn for an object passed to detect
PropValuePool ==
  { JsNull, JsNumber(<<"5">>), JsString(Red), JsString(HashHex6),
    NamedColor, UnnamedColor, JsArray(<<NamedColor>>), JsArray(<<JsNull>>) }

\* The property names drawn, in the order they are inserted
KeyPool == <<MetaKey, <<"a">>, HashHex6,
             <<"#", "0", "0", "f", "f", "0", "0">>, <<"b">>>>

\* The increasing sequence of the members of the set S of numbers
RECURSIVE Increasing(_)
Increasing(S) ==
  IF S = {} THEN <<>>
  ELSE LET m == CHOOSE x \in S : \A y \in S : x <= y
       IN  <<m>> \o Increasing(S \ {m})

\* The sets of positions of KeyPool an object's property names are drawn as
KeySets == {T \in SUBSET (1..Len(KeyPool)) : Cardinality(T) <= MaxEntries}

\* The object with the property names KeyPool[idx[1]], KeyPool[idx[2]], ...
ObjectInput(idx, vs) == JsObject(Eager([i \in 1..Len(idx) |-> KeyPool[idx[i]]]), vs)

\* The values that are neither arrays nor objects
ScalarInputs ==
  {JsNull, JsUndefined, JsNumber(<<"5">>), JsString(Red), JsString(<<>>)}

\* The argument drawn: a scalar, an array of up to MaxItems items, or an
\* object of up to MaxEntries properties
InitDetect ==
  /\ pc = "ready"
  /\ ret = <<>>
  /\ \/ \E data \in ScalarInputs : args = [data |-> data]
     \/ \E n \in 0..MaxItems : \E items \in [1..n -> ArrayItemPool] :
          args = [data |-> JsArray(items)]
     \/ \E S \in KeySets : \E vs \in [1..Cardinality(S) -> PropValuePool] :
          args = [data |-> ObjectInput(Increasing(S), vs)]

\* One call ASTDetector.detect(data)
Detect ==
  /\ pc = "ready"
  /\ pc' = "done"
  /\ ret' = detect(args.data)
  /\ UNCHANGED args

NextDetect == Detect

SpecDetect == InitDetect /\ [][NextDetect]_vars

\* C8: detect never returns an empty list; when no shape detector fires the
\* list holds the unknown candidate with confidence 0.
C8_NeverEmpty ==
  (pc = "done" /\ ~ret.threw) =>
    /\ Len(ret.structures) >= 1
    /\ DetectedStructures(args.data) = <<>> =>
         ret.structures = <<[type |-> "unknown", confidence |-> Conf(0, 1)]>>

\* Position of a detector in the evaluation order of detect
DetectorRank(type) ==
  CASE type = "color-palette" -> 1
    [] type = "json" -> 2
    [] type = "pairs" -> 3
    [] type = "object" -> 4
    [] type = "objects" -> 5
    [] type = "structured" -> 6
    [] OTHER -> 0

\* C9: the returned list is ordered by non-increasing confidence, and
\* candidates of equal confidence keep detector evaluation order.
C9_SortedStable ==
  (pc = "done" /\ ~ret.threw) =>
    \A i, j \in 1..Len(ret.structures) :
      i < j =>
        /\ ~ConfGreater(ret.structures[j].confidence, ret.structures[i].confidence)
        /\ ~ConfGreater(ret.structures[i].confidence, ret.structures[j].confidence)
             => DetectorRank(ret.structures[i].type) < DetectorRank(ret.structures[j].type)

\* A call that returned an object-entries candidate and a structured
\* candidate of equal confidence, in detector order
C9_Witness ==
  /\ pc = "done"
  /\ ~ret.threw
  /\ Len(ret.structures) >= 2
  /\ \E i \in 1..(Len(ret.structures) - 1) :
       /\ ret.structures[i].type = "object"
       /\ ret.structures[i + 1].type = "structured"
       /\ ~ConfGreater(ret.structures[i].confidence, ret.structures[i + 1].confidence)
       /\ ~ConfGreater(ret.structures[i + 1].confidence, ret.structures[i].confidence)

\* C10: every returned candidate has a confidence that is a number in [0,1].
C10_ConfidenceInUnitInterval ==
  (pc = "done" /\ ~ret.threw) =>
    \A i \in 1..Len(ret.structures) :
      LET c == ret.structures[i].confidence
      IN  /\ ~c.nan
          /\ c.den > 0
          /\ c.num >= 0
          /\ c.num < c.den \/ (c.num = c.den /\ c.up = 0)

\* C11: detect never throws on dirty deserialized data: for every JSON-like
\* value it returns a candidate list instead of raising an error.
C11_NeverThrows ==
  pc = "done" => ~ret.threw

(***************************************************************************)
(* SpectrumAnalyzer, QualityScorer, DatasetPruner                          *)
(*                                                                         *)
(* A color is [hex, family, hsl |-> [h, s, l]] with h in degrees and s, l  *)
(* in percent, the integers hexToHslMetrics delivers.  A JavaScript number *)
(* is [nan, v].  The four component scores are fixed-point numbers in      *)
(* millionths (One is 1.0); the weighted sum is then exact to 1e-4 of a    *)
(* score point, and on the colors of Palette no weighted sum comes within  *)
(* 3e-3 of a rounding boundary, so every overallScore is the integer the   *)
(* double arithmetic of the code yields.                                   *)
(***************************************************************************)
\* Bound: largest dataset handed to prune
MaxDataset == 6

\* Bound: largest targetCount handed to prune
MaxTarget == 6

\* SpectrumAnalyzer.BUCKET_SIZE, degrees of hue per bucket
BUCKET_SIZE == 15

\* 1.0 in millionths
One == 1000000

\* A number that is not NaN
Num(v) == [nan |-> FALSE, v |-> v]

\* The number NaN
NaN == [nan |-> TRUE, v |-> 0]

SetMin(S) == CHOOSE x \in S : \A y \in S : x <= y

SetMax(S) == CHOOSE x \in S : \A y \in S : x >= y

\* Sum of a sequence of integers
RECURSIVE SumSeq(_)
SumSeq(s) == IF s = <<>> THEN 0 ELSE Head(s) + SumSeq(Tail(s))

\* Array.prototype.slice(0, n)
Prefix(seq, n) == SubSeq(seq, 1, Min2(n, Len(seq)))

\* Math.floor(Math.sqrt(n))
RECURSIVE Isqrt(_)
Isqrt(n) ==
  IF n < 2 THEN n
  ELSE LET s == 2 * Isqrt(n \div 4)
       IN  IF (s + 1) * (s + 1) <= n THEN s + 1 ELSE s

\* Math.sqrt(n) in thousandths (linear between consecutive squares)
Sqrt1000(n) ==
  LET r == Isqrt(n)
  IN  1000 * r + (1000 * (n - r * r)) \div (2 * r + 1)

\* Math.min(Math.abs(a.h - b.h), 360 - Math.abs(a.h - b.h))
HueDistance(a, b) ==
  Min2(Abs(a.hsl.h - b.hsl.h), 360 - Abs(a.hsl.h - b.hsl.h))

\* Number of buckets the loop i = 0; i < 360; i += BUCKET_SIZE creates
BucketCount == (360 + BUCKET_SIZE - 1) \div BUCKET_SIZE

\* SpectrumAnalyzer.analyzeCoverage: the buckets in the Map's order, the
\* families and the extent of every family.  A color whose bucket key
\* floor(h / BUCKET_SIZE) * BUCKET_SIZE is not a key of the Map is in no bucket.
analyzeCoverage(colors) ==
  LET families == {colors[i].family : i \in 1..Len(colors)}
      hs(f) == {colors[i].hsl.h : i \in {j \in 1..Len(colors) : colors[j].family = f}}
      ss(f) == {colors[i].hsl.s : i \in {j \in 1..Len(colors) : colors[j].family = f}}
      ls(f) == {colors[i].hsl.l : i \in {j \in 1..Len(colors) : colors[j].family = f}}
  IN  [buckets |-> Eager([b \in 1..BucketCount |->
         LET inside == SelectSeq(colors, LAMBDA c :
                         (c.hsl.h \div BUCKET_SIZE) * BUCKET_SIZE = (b - 1) * BUCKET_SIZE)
         IN  [hueMin  |-> (b - 1) * BUCKET_SIZE,
              hueMax  |-> (b - 1) * BUCKET_SIZE + BUCKET_SIZE,
              colors  |-> inside,
              density |-> Len(inside)]]),
       families |-> families,
       familyRanges |-> [f \in families |->
         [minH |-> SetMin(hs(f)), maxH |-> SetMax(hs(f)),
          minS |-> SetMin(ss(f)), maxS |-> SetMax(ss(f)),
          minL |-> SetMin(ls(f)), maxL |-> SetMax(ls(f))]]]

\* Variant of getCriticalBuckets that takes the mean over all the buckets,
\* the empty ones included
getCriticalBucketsOverAll(coverage) ==
  LET buckets == coverage.buckets
      total   == SumSeq([i \in 1..Len(buckets) |-> buckets[i].density])
  IN  SelectSeq(buckets, LAMBDA b : 2 * b.density * Len(buckets) < total)

\* SpectrumAnalyzer.getCriticalBuckets: density < avgDensity * 0.5 with
\* avgDensity = total / buckets.length, compared on integers
getCriticalBuckets(coverage) ==
  LET buckets == SelectSeq(coverage.buckets, LAMBDA b : b.density > 0)
      total   == SumSeq([i \in 1..Len(buckets) |-> buckets[i].density])
  IN  SelectSeq(buckets, LAMBDA b : 2 * b.density * Len(buckets) < total)

\* QualityScorer.colorDistance divided by 100, in millionths: the radicand
\* (dH/360)^2 * 0.4 + (dS/100)^2 * 0.3 + (dL/100)^2 * 0.3 is
\* (25 dH^2 + 243 dS^2 + 243 dL^2) / 8100000
colorDistance(c1, c2) ==
  LET dH == HueDistance(c1, c2)
      dS == Abs(c1.hsl.s - c2.hsl.s)
      dL == Abs(c1.hsl.l - c2.hsl.l)
  IN  Sqrt1000(10 * (25 * dH * dH + 243 * dS * dS + 243 * dL * dL)) \div 9

\* QualityScorer.calculateUniqueness
calculateUniqueness(color, nearbyColors) ==
  IF Len(nearbyColors) = 0 THEN Num(One)
  ELSE LET minDistance == SetMin({colorDistance(color, nearbyColors[i]) :
                                    i \in 1..Len(nearbyColors)})
       IN  Num(Min2(One, minDistance))

\* QualityScorer.calculateSaturationQuality, distances taken twice so that
\* mid = (sMin + sMax) / 2 stays an integer; 0 / 0 is NaN and x / 0 is Infinity
calculateSaturationQuality(s, sMin, sMax) ==
  LET distanceFromMid == Abs(2 * s - (sMin + sMax))
      maxDistance     == Max2((sMin + sMax) - 2 * sMin, 2 * sMax - (sMin + sMax))
  IN  IF maxDistance = 0
      THEN IF distanceFromMid = 0 THEN NaN ELSE Num(One)
      ELSE Num(Min2(One, (One * distanceFromMid) \div maxDistance))

\* QualityScorer.calculateLightnessQuality
calculateLightnessQuality(l, lMin, lMax) ==
  IF l < lMin + 10 \/ l > lMax - 10 THEN Num((3 * One) \div 10)
  ELSE IF l < lMin + 20 \/ l > lMax - 20 THEN Num((6 * One) \div 10)
  ELSE Num(One)

\* QualityScorer.calculateFamilyRepresentativity.  With m family members and
\* D = m * x - sum(x) per channel the radicand is
\* (25 Dh^2 + 324 Ds^2 + 432 Dl^2) / (10800000 m^2); the distance reaches
\* 0.35, where 1 - 2 * distance falls to the floor 0.3, at 1323000 m^2.
calculateFamilyRepresentativity(color, familyColors) ==
  IF Len(familyColors) = 0 THEN Num(One)
  ELSE LET m  == Len(familyColors)
           Dh == m * color.hsl.h - SumSeq([i \in 1..m |-> familyColors[i].hsl.h])
           Ds == m * color.hsl.s - SumSeq([i \in 1..m |-> familyColors[i].hsl.s])
           Dl == m * color.hsl.l - SumSeq([i \in 1..m |-> familyColors[i].hsl.l])
           radicand == 25 * Dh * Dh + 324 * Ds * Ds + 432 * Dl * Dl
       IN  IF radicand >= 1323000 * m * m THEN Num((3 * One) \div 10)
           ELSE Num(Max2((3 * One) \div 10,
                         One - 2 * (Sqrt1000(30 * radicand) \div (18 * m))))

\* QualityScorer.scoreColor; Math.round(x) is floor(x + 0.5)
scoreColor(color, nearbyColors, familyColors, spectralRanges) ==
  LET uniqueness == calculateUniqueness(color, nearbyColors)
      saturationQuality ==
        calculateSaturationQuality(color.hsl.s, spectralRanges.sMin, spectralRanges.sMax)
      lightnessQuality ==
        calculateLightnessQuality(color.hsl.l, spectralRanges.lMin, spectralRanges.lMax)
      familyRepresentativity == calculateFamilyRepresentativity(color, familyColors)
  IN  [color |-> color,
       uniqueness |-> uniqueness,
       saturationQuality |-> saturationQuality,
       lightnessQuality |-> lightnessQuality,
       familyRepresentativity |-> familyRepresentativity,
       overallScore |->
         IF \/ uniqueness.nan \/ saturationQuality.nan
            \/ lightnessQuality.nan \/ familyRepresentativity.nan
         THEN NaN
         ELSE Num((uniqueness.v * 35 + saturationQuality.v * 25
                   + lightnessQuality.v * 25 + familyRepresentativity.v * 15
                   + One \div 2) \div One)]

\* DatasetPruner.scoreAllColors
scoreAllColors(colors, coverage) ==
  Eager([i \in 1..Len(colors) |->
    LET color        == colors[i]
        familyColors == SelectSeq(colors, LAMBDA c : c.family = color.family)
        familyRange  == coverage.familyRanges[color.family]
        nearbyColors == SelectSeq(colors, LAMBDA c :
                          c.hex # color.hex /\ HueDistance(c, color) < 30)
    IN  scoreColor(color, nearbyColors, familyColors,
                   [hMin |-> familyRange.minH, hMax |-> familyRange.maxH,
                    sMin |-> familyRange.minS, sMax |-> familyRange.maxS,
                    lMin |-> familyRange.minL, lMax |-> familyRange.maxL])])

\* (a, b) => b.overallScore - a.overallScore is a consistent comparator on
\* list: a NaN difference compares as equal, so a NaN score is equal to every
\* score, which is transitive only when the other scores are all the same
ConsistentComparator(list) ==
  \/ \A i \in 1..Len(list) : ~list[i].overallScore.nan
  \/ \A i, j \in 1..Len(list) :
       (~list[i].overallScore.nan /\ ~list[j].overallScore.nan)
         => list[i].overallScore.v = list[j].overallScore.v

\* list.sort((a, b) => b.overallScore - a.overallScore): the orders the sort
\* may leave.  A consistent comparator gives the one stable descending
\* order; otherwise the order is implementation-defined, any permutation.
sortByOverallScore(list) ==
  IF ConsistentComparator(list)
  THEN {SortByScoreDesc(list, Eager([i \in 1..Len(list) |->
          IF \E j \in 1..Len(list) : list[j].overallScore.nan
          THEN 0 ELSE list[i].overallScore.v]))}
  ELSE {Eager([i \in 1..Len(list) |-> list[p[i]]]) : p \in Permutations(1..Len(list))}

\* Math.ceil(targetCount / familiesMap.size * 1.2)
toTake(targetCount, size) == (6 * targetCount + 5 * size - 1) \div (5 * size)

\* Step 1 of selectOptimalColors from family g on: the possible contents of
\* selected
RECURSIVE FamilyRepresentation(_, _, _)
FamilyRepresentation(familiesMap, g, targetCount) ==
  IF g > Len(familiesMap) THEN {<<>>}
  ELSE {Prefix(sorted, toTake(targetCount, Len(familiesMap))) \o rest :
          sorted \in sortByOverallScore(familiesMap[g].group),
          rest \in FamilyRepresentation(familiesMap, g + 1, targetCount)}

\* The loop over gapBuckets of Step 3 from bucket g on: the possible final
\* lists
RECURSIVE FillGaps(_, _, _, _, _)
FillGaps(final, removed, gapBuckets, g, targetCount) ==
  IF g > Len(gapBuckets) THEN {final}
  ELSE LET inBucket == SelectSeq(removed, LAMBDA sc :
                         /\ sc.color.hsl.h >= gapBuckets[g].hueMin
                         /\ sc.color.hsl.h < gapBuckets[g].hueMax)
       IN  IF Len(inBucket) > 0 /\ Len(final) < targetCount
           THEN UNION {UNION {FillGaps(Prefix(refilled, targetCount), removed,
                                       gapBuckets, g + 1, targetCount) :
                                refilled \in sortByOverallScore(Append(final, candidates[1]))} :
                         candidates \in sortByOverallScore(inBucket)}
           ELSE FillGaps(final, removed, gapBuckets, g + 1, targetCount)

\* Step 3 of selectOptimalColors on one final list of Step 2
SpectrumGaps(final, scoredColors, targetCount) ==
  LET finalCoverage == analyzeCoverage(Eager([i \in 1..Len(final) |-> final[i].color]))
      gapBuckets    == getCriticalBuckets(finalCoverage)
      removed       == SelectSeq(scoredColors, LAMBDA sc :
                         ~\E f \in 1..Len(final) : final[f].color.hex = sc.color.hex)
  IN  IF Len(gapBuckets) > 0
      THEN FillGaps(final, removed, Prefix(gapBuckets, (targetCount + 19) \div 20),
                    1, targetCount)
      ELSE {final}

\* DatasetPruner.selectOptimalColors: the lists it may return (Step 4 is
\* commented out in the code)
selectOptimalColors(scoredColors, targetCount) ==
  LET familiesMap == GroupsOf(scoredColors,
                       Eager([i \in 1..Len(scoredColors) |-> scoredColors[i].color.family]),
                       Eager([i \in 1..Len(scoredColors) |-> FALSE]))
  IN  UNION {UNION {SpectrumGaps(Prefix(sortedByScore, targetCount),
                                 scoredColors, targetCount) :
                      sortedByScore \in sortByOverallScore(selected)} :
               selected \in FamilyRepresentation(familiesMap, 1, targetCount)}

\* list.reduce((sum, sc) => sum + sc.overallScore, 0) / divisor as the
\* fraction num / den, or NaN
MeanScore(list, divisor) ==
  IF (\E i \in 1..Len(list) : list[i].overallScore.nan) \/ divisor = 0
  THEN [nan |-> TRUE, num |-> 0, den |-> 1]
  ELSE [nan |-> FALSE,
        num |-> SumSeq([i \in 1..Len(list) |-> list[i].overallScore.v]),
        den |-> divisor]

\* DatasetPruner.prune: the results it may return
prune(colors, targetCount) ==
  LET originalCoverage == analyzeCoverage(colors)
      scoredColors     == scoreAllColors(colors, originalCoverage)
  IN  {[data  |-> Eager([i \in 1..Len(selected) |-> selected[i].color]),
        stats |-> [removedCount |-> Len(colors) - Len(selected),
                   keptCount    |-> Len(selected),
                   avgScoreKept |-> MeanScore(selected, Len(selected)),
                   avgScoreRemoved |->
                     MeanScore(SelectSeq(scoredColors, LAMBDA sc :
                                 ~\E s \in 1..Len(selected) :
                                    selected[s].color.hex = sc.color.hex),
                               Max2(1, Len(scoredColors) - Len(selected)))]] :
         selected \in selectOptimalColors(scoredColors, targetCount)}

Color(hex, family, h, s, l) ==
  [hex |-> hex, family |-> family, hsl |-> [h |-> h, s |-> s, l |-> l]]

\* Colors the datasets are drawn from, with the hsl that hexToHslMetrics
\* gives their hex and the family that getColorFamily gives their hsl
Palette ==
  {Color("#2f6f50", "nature", 151, 41, 31), Color("#a2d8bd", "nature", 150, 41, 74),
   Color("#1c9b6f", "nature", 159, 69, 36), Color("#47d7cd", "nature", 176, 64, 56),
   Color("#0a6643", "teal", 157, 82, 22), Color("#1f332e", "teal", 165, 24, 16)}

\* All sequences of length 0..n of distinct elements of S
RECURSIVE DistinctSeqs(_, _)
DistinctSeqs(S, n) ==
  IF n = 0 THEN {<<>>}
  ELSE LET shorter == DistinctSeqs(S, n - 1)
       IN  shorter \cup UNION {{Append(s, c) : c \in S \ Range(s)} : s \in shorter}

InitPrune ==
  /\ pc = "ready"
  /\ ret = <<>>
  /\ \E colors \in DistinctSeqs(Palette, MaxDataset), targetCount \in 1..MaxTarget :
       args = [colors |-> colors, targetCount |-> targetCount]

\* One call DatasetPruner.prune(colors, targetCount, {}, logger)
Prune ==
  /\ pc = "ready"
  /\ ret' \in prune(args.colors, args.targetCount)
  /\ pc' = "done"
  /\ UNCHANGED args

NextPrune == Prune

SpecPrune == InitPrune /\ [][NextPrune]_vars

\* x >= y on the fractions of MeanScore (false when either is NaN)
MeanAtLeast(x, y) == ~x.nan /\ ~y.nan /\ x.num * y.den >= y.num * x.den

\* C1: for every color list and every targetCount k >= 1, prune returns
\* exactly min(k, len(colors)) records.
C1_ReturnsMinOfTargetAndSize ==
  pc = "done" => Len(ret.data) = Min2(args.targetCount, Len(args.colors))

\* C5: whenever prune removes at least one record, stats.avgScoreKept is
\* greater than or equal to stats.avgScoreRemoved.
C5_KeptMeanAtLeastRemovedMean ==
  (pc = "done" /\ ret.stats.removedCount >= 1) =>
    MeanAtLeast(ret.stats.avgScoreKept, ret.stats.avgScoreRemoved)

(***************************************************************************)
(* ColorMetrics.hexToRgb                                                   *)
(*                                                                         *)
(* A string is a sequence of one-character strings.  A returned component  *)
(* is counted in thousandths (Math.round(v * 1000) / 1000 keeps three      *)
(* decimals), as Num(k) for k / 1000, or is NaN.                           *)
(***************************************************************************)
\* Bound: most characters between the optional '#' and the end of a drawn hex
MaxDigits == 8

\* String.prototype.trimStart (the blank is the only white space drawn)
RECURSIVE trimStart(_)
trimStart(s) == IF s # <<>> /\ s[1] = " " THEN trimStart(Tail(s)) ELSE s

\* String.prototype.trimEnd
RECURSIVE trimEnd(_)
trimEnd(s) ==
  IF s # <<>> /\ s[Len(s)] = " " THEN trimEnd(SubSeq(s, 1, Len(s) - 1)) ELSE s

\* String.prototype.trim
trim(s) == trimEnd(trimStart(s))

\* let normalized = hex.trim().toLowerCase(), without its leading '#'
normalized(hex) ==
  LET n == toLowerCase(trim(hex))
  IN  IF n # <<>> /\ n[1] = "#" THEN Tail(n) ELSE n

\* The character class [0-9a-f]
LowerHexDigits ==
  {"0", "1", "2", "3", "4", "5", "6", "7", "8", "9", "a", "b", "c", "d", "e", "f"}

\* The test of the lengths alone, the characters not being looked at
AnyFixedLength(chars) == Len(chars) \in {3, 6, 8}

\* /^[0-9a-f]{3}$|^[0-9a-f]{6}$|^[0-9a-f]{8}$/.test(chars)
FixedLengthHex(chars) ==
  /\ Len(chars) \in {3, 6, 8}
  /\ \A i \in 1..Len(chars) : chars[i] \in LowerHexDigits

\* The value of one digit in radix 16
HexDigitValue(c) ==
  CASE LowerChar(c) = "0" -> 0 [] LowerChar(c) = "1" -> 1
    [] LowerChar(c) = "2" -> 2 [] LowerChar(c) = "3" -> 3
    [] LowerChar(c) = "4" -> 4 [] LowerChar(c) = "5" -> 5
    [] LowerChar(c) = "6" -> 6 [] LowerChar(c) = "7" -> 7
    [] LowerChar(c) = "8" -> 8 [] LowerChar(c) = "9" -> 9
    [] LowerChar(c) = "a" -> 10 [] LowerChar(c) = "b" -> 11
    [] LowerChar(c) = "c" -> 12 [] LowerChar(c) = "d" -> 13
    [] LowerChar(c) = "e" -> 14 [] LowerChar(c) = "f" -> 15

\* The digits parseInt reads: the longest prefix of s made of radix-16 digits
RECURSIVE DigitPrefix(_)
DigitPrefix(s) ==
  IF s # <<>> /\ IsHexDigit(s[1]) THEN <<s[1]>> \o DigitPrefix(Tail(s)) ELSE <<>>

\* The number written by a sequence of radix-16 digits
RECURSIVE DigitsValue(_)
DigitsValue(digits) ==
  IF digits = <<>> THEN 0
  ELSE 16 * DigitsValue(SubSeq(digits, 1, Len(digits) - 1))
         + HexDigitValue(digits[Len(digits)])

\* parseInt(s, 16): leading white space is skipped, the digits up to the
\* first other character are read, and no digit at all gives NaN (no sign
\* and no 0x prefix occurs in the strings drawn)
parseInt(s) ==
  LET digits == DigitPrefix(trimStart(s))
  IN  IF digits = <<>> THEN NaN ELSE Num(DigitsValue(digits))

\* v >= 1 ? v / 255 : v, as the fraction num / den (NaN >= 1 is false)
normalizeChannel(v) ==
  IF v.nan THEN [nan |-> TRUE, num |-> 0, den |-> 1]
  ELSE IF v.v >= 1 THEN [nan |-> FALSE, num |-> v.v, den |-> 255]
  ELSE [nan |-> FALSE, num |-> v.v, den |-> 1]

\* normalizeRgb(rgb)
normalizeRgb(rgb) == Eager([i \in 1..Len(rgb) |-> normalizeChannel(rgb[i])])

\* A rounding that keeps two decimals instead of three
roundTwoDecimals(q) ==
  IF q.nan THEN NaN ELSE Num(10 * ((200 * q.num + q.den) \div (2 * q.den)))

\* const round = v => Math.round(v * 1000) / 1000, in thousandths (no
\* v * 1000 of a byte is a tie, so the double and the fraction round alike)
round(q) ==
  IF q.nan THEN NaN ELSE Num((2000 * q.num + q.den) \div (2 * q.den))

\* normalized.slice(lo - 1, hi) of the code's zero-based slice(lo - 1, hi)
slice(chars, lo, hi) == SubSeq(chars, lo, hi)

\* return [r, g, b, a] of the two early returns: r = 0, g = 0, b = 0, a = 1
EarlyReturn == <<Num(0), Num(0), Num(0), Num(1000)>>

\* normalized.split('').map(ch => ch + ch).join('')
RECURSIVE Doubled(_)
Doubled(chars) ==
  IF chars = <<>> THEN <<>>
  ELSE <<chars[1], chars[1]>> \o Doubled(Tail(chars))

\* ColorMetrics.hexToRgb(hex): the four returned components
hexToRgb(hex) ==
  LET n0 == normalized(hex)
      n == IF Len(hex) = 3 THEN Doubled(n0) ELSE n0
      r == parseInt(slice(n, 1, 2))
      g == parseInt(slice(n, 3, 4))
      b == parseInt(slice(n, 5, 6))
      rgba == normalizeRgb(<<r, g, b, IF Len(n) = 8 THEN parseInt(slice(n, 7, 8))
                                      ELSE Num(1)>>)
  IN  IF ~FixedLengthHex(n0) THEN EarlyReturn
      ELSE IF Len(n) \notin {6, 8} THEN EarlyReturn
      ELSE Eager([i \in 1..4 |-> round(rgba[i])])

\* Characters of the hex strings drawn: a digit, an upper-case digit and a
\* letter that is no digit
DigitPool == {"0", "F", "g"}

\* The hex "#rrggbb" whose channel ch is the byte written x y, the others 00
ChannelHex(ch, x, y) ==
  <<"#">> \o Eager([i \in 1..6 |-> IF i = 2 * ch - 1 THEN x
                                   ELSE IF i = 2 * ch THEN y ELSE "0"])

\* The strings passed to hexToRgb: blank?, '#'?, up to MaxDigits characters,
\* blank?; and every byte in every channel
InitHexToRgb ==
  /\ pc = "ready"
  /\ ret = <<>>
  /\ \/ \E lead \in {<<>>, <<" ">>}, hash \in {<<>>, <<"#">>},
           trail \in {<<>>, <<" ">>}, digits \in SeqsUpTo(DigitPool, MaxDigits) :
          args = [hex |-> lead \o hash \o digits \o trail]
     \/ \E ch \in 1..3, x \in LowerHexDigits, y \in LowerHexDigits :
          args = [hex |-> ChannelHex(ch, x, y)]

\* One call ColorMetrics.hexToRgb(hex)
HexToRgb ==
  /\ pc = "ready"
  /\ ret' = hexToRgb(args.hex)
  /\ pc' = "done"
  /\ UNCHANGED args

NextHexToRgb == HexToRgb

SpecHexToRgb == InitHexToRgb /\ [][NextHexToRgb]_vars

\* A string that is a fixed-length hex color: after trimming and dropping an
\* optional leading '#', 3, 6 or 8 digits 0-9 a-f in either case
ValidHexColor(hex) ==
  LET t == trim(hex)
      d == IF t # <<>> /\ t[1] = "#" THEN Tail(t) ELSE t
  IN  HexDigits(d, 3, 3) \/ HexDigits(d, 6, 6) \/ HexDigits(d, 8, 8)

\* C12: hexToRgb never throws on a string: it returns four components, and
\* for every string that is not a valid fixed-length hex color the red, green
\* and blue ones are 0.
C12_InvalidHexIsZeroColor ==
  pc = "done" =>
    /\ Len(ret) = 4
    /\ ~ValidHexColor(args.hex) =>
         (ret[1] = Num(0) /\ ret[2] = Num(0) /\ ret[3] = Num(0))

\* C12 witness: a string of six characters that are not all digits has been
\* converted.
C12_Witness ==
  /\ pc = "done"
  /\ Len(normalized(args.hex)) = 6
  /\ ~ValidHexColor(args.hex)

\* The digits of a hex written with or without a leading '#'
WithoutHash(hex) == IF hex # <<>> /\ hex[1] = "#" THEN Tail(hex) ELSE hex

\* C13: a 3-digit hex is expanded by digit duplication: for every 3-digit hex
\* string xyz, written with or without a leading '#', hexToRgb(xyz) equals
\* hexToRgb of the 6-digit string xxyyzz (red, green and blue compared).
C13_ThreeDigitsExpanded ==
  (pc = "done" /\ HexDigits(WithoutHash(args.hex), 3, 3)) =>
    SubSeq(ret, 1, 3) = SubSeq(hexToRgb(Doubled(WithoutHash(args.hex))), 1, 3)

\* A valid 6-digit hex: six digits after trimming and dropping the '#'
SixDigitHex(hex) == HexDigits(WithoutHash(trim(hex)), 6, 6)

\* The byte 0..255 that a valid 6-digit hex writes for channel ch
ChannelByte(hex, ch) ==
  DigitsValue(SubSeq(WithoutHash(trim(hex)), 2 * ch - 1, 2 * ch))

\* Math.round(c * 255) of a component of k thousandths
RoundTimes255(k) == (255 * k + 500) \div 1000

\* C14: hexToRgb round-trips every valid 6-digit hex: for each channel byte v
\* in 0..255 the returned component c = round3(v / 255) lies in [0, 1] and
\* round(c * 255) = v.
C14_RoundTrip ==
  (pc = "done" /\ SixDigitHex(args.hex)) =>
    \A ch \in 1..3 :
      /\ ~ret[ch].nan
      /\ ret[ch].v = (2000 * ChannelByte(args.hex, ch) + 255) \div 510
      /\ ret[ch].v >= 0
      /\ ret[ch].v <= 1000
      /\ RoundTimes255(ret[ch].v) = ChannelByte(args.hex, ch)

\* C14 witness: a 6-digit hex whose green byte is 0x7f (c = 0.498, and
\* 0.498 * 255 = 126.99) has been converted.
C14_Witness ==
  /\ pc = "done"
  /\ SixDigitHex(args.hex)
  /\ ChannelByte(args.hex, 2) = 127
  /\ ret[2] = Num(498)

(***************************************************************************)
(* ColorMetrics.calculateHueRange and ColorMetrics.hexToHslMetrics         *)
(*                                                                         *)
(* The unrounded h and s are fractions num / den with den > 0; the bounds  *)
(* of a hue range are counted in tenths of a degree (Math.round(x * 10) /  *)
(* 10 keeps one decimal).  Rounding is exact rounding, half up, which is   *)
(* what Math.round does to the doubles of the inputs drawn here: none of   *)
(* the drawn inputs puts a value on a tie.                                 *)
(***************************************************************************)
\* The number num / den
Frac(n, d) == [num |-> n, den |-> d]

\* Math.round(x) of the fraction x = n / d with n >= 0
RoundFrac(n, d) == (2 * n + d) \div (2 * d)

\* Math.round(x * 10) of the fraction x = n / d with n >= 0
RoundTenths(n, d) == 10 * (n \div d) + (20 * (n % d) + d) \div (2 * d)

\* return [0, 360], in tenths of a degree
FullCircle == <<0, 3600>>

\* A spread without the lower limit of one degree: 20 * (1 - s)
spreadUnlimited(s) == 20 * (s.den - s.num)

\* const spread = Math.max(1, 20 * (1 - s)), as a multiple of 1 / s.den
spread(s) == Max2(s.den, 20 * (s.den - s.num))

\* ColorMetrics.calculateHueRange({ h, s, l })
calculateHueRange(h, s) ==
  LET q == h.den * s.den
      start0 == h.num * s.den - spread(s) * h.den
      end0 == h.num * s.den + spread(s) * h.den
      start == IF start0 < 0 THEN 0 ELSE start0
      end == IF end0 > 360 * q THEN 360 * q ELSE end0
  IN  IF 20 * s.num < s.den THEN FullCircle
      ELSE IF end - start > 180 * q THEN FullCircle
      ELSE <<RoundTenths(start, q), RoundTenths(end, q)>>

\* The returned object of hexToHslMetrics for the unrounded h and s and for
\* max + min in thousandths (l = (max + min) / 2)
HslMetrics(h, s, sum) ==
  [h |-> RoundFrac(h.num, h.den),
   s |-> RoundFrac(100 * s.num, s.den),
   l |-> RoundFrac(100 * sum, 2000),
   hueRange |-> calculateHueRange(h, s)]

\* hexToHslMetrics after const [r, g, b] = this.hexToRgb(hex); r, g, b, max,
\* min and delta are in thousandths
HslOfRgb(rgb) ==
  LET r == rgb[1].v
      g == rgb[2].v
      b == rgb[3].v
      max == Max2(Max2(r, g), b)
      min == Min2(Min2(r, g), b)
      delta == max - min
      s == IF max = min THEN Frac(0, 1)
           ELSE IF max + min > 1000 THEN Frac(delta, 2000 - max - min)
           ELSE Frac(delta, max + min)
      h == IF max = min THEN Frac(0, 1)
           ELSE IF max = r
             THEN Frac(60 * (g - b) + (IF g < b THEN 360 * delta ELSE 0), delta)
           ELSE IF max = g THEN Frac(60 * (b - r) + 120 * delta, delta)
           ELSE Frac(60 * (r - g) + 240 * delta, delta)
  IN  Once(LAMBDA hs : HslMetrics(hs[1], hs[2], hs[3]), <<h, s, max + min>>)

\* ColorMetrics.hexToHslMetrics(hex)
hexToHslMetrics(hex) == Once(HslOfRgb, hexToRgb(hex))

\* Digits of the colors passed to hexToHslMetrics
HslDigits == {"0", "1", "5", "f"}

\* The colors passed to hexToHslMetrics: six digits, with or without '#'
InitHexToHsl ==
  /\ pc = "ready"
  /\ ret = <<>>
  /\ \E hash \in {<<>>, <<"#">>}, digits \in [1..6 -> HslDigits] :
       args = [hex |-> hash \o digits]

\* One call ColorMetrics.hexToHslMetrics(hex)
HexToHsl ==
  /\ pc = "ready"
  /\ ret' = hexToHslMetrics(args.hex)
  /\ pc' = "done"
  /\ UNCHANGED args

NextHexToHsl == HexToHsl

SpecHexToHsl == InitHexToHsl /\ [][NextHexToHsl]_vars

\* C15: for every valid 6-digit hex, hexToHslMetrics returns an integer hue h
\* with 0 <= h < 360 (360 itself is never returned) and integer percentages
\* s and l with 0 <= s, l <= 100.
C15_HueBelow360 ==
  (pc = "done" /\ SixDigitHex(args.hex)) =>
    /\ ret.h \in 0..359
    /\ ret.s \in 0..100
    /\ ret.l \in 0..100

\* The hues passed to calculateHueRange: every quarter of a degree of [0, 360]
HuePool == {Frac(n, 4) : n \in 0..1440}

\* The saturations passed to calculateHueRange: every 1/32 of [0, 1]
SaturationPool == {Frac(m, 32) : m \in 0..32}

\* The arguments of calculateHueRange (l is not read)
InitHueRange ==
  /\ pc = "ready"
  /\ ret = <<>>
  /\ \E h \in HuePool, s \in SaturationPool : args = [h |-> h, s |-> s]

\* One call ColorMetrics.calculateHueRange({ h, s, l })
CalculateHueRange ==
  /\ pc = "ready"
  /\ ret' = calculateHueRange(args.h, args.s)
  /\ pc' = "done"
  /\ UNCHANGED args

NextHueRange == CalculateHueRange

SpecHueRange == InitHueRange /\ [][NextHueRange]_vars

\* Ten times max(0, h - 1) and ten times min(360, h + 1), as multiples of
\* 1 / h.den: the band of one degree either side of h, in tenths
NarrowLo(h) == 10 * Max2(0, h.num - h.den)

NarrowHi(h) == 10 * Min2(360 * h.den, h.num + h.den)

\* The result for s < 0.05, and the bounds of the result for s >= 0.05
AchromaticAndBounds ==
  /\ 20 * args.s.num < args.s.den => ret = FullCircle
  /\ 20 * args.s.num >= args.s.den =>
       /\ 0 <= ret[1]
       /\ ret[1] <= ret[2]
       /\ ret[2] <= 3600
       /\ ret[2] - ret[1] <= 400

\* C16 as stated: calculateHueRange returns [0, 360] for every h when
\* s < 0.05; for s = 1 and every h in [0, 360] it returns exactly
\* [max(0, h - 1), min(360, h + 1)]; and for every s >= 0.05 the result
\* [lo, hi] satisfies 0 <= lo <= hi <= 360 with hi - lo <= 40.
C16_Original ==
  pc = "done" =>
    /\ AchromaticAndBounds
    /\ args.s.num = args.s.den =>
         /\ ret[1] * args.h.den = NarrowLo(args.h)
         /\ ret[2] * args.h.den = NarrowHi(args.h)

\* C16 amended: as above, but for s = 1 the result is
\* [max(0, h - 1), min(360, h + 1)] rounded to one decimal: each bound is a
\* whole number of tenths at most 0.05 away from the unrounded one.
C16_RoundedToOneDecimal ==
  pc = "done" =>
    /\ AchromaticAndBounds
    /\ args.s.num = args.s.den =>
         /\ 2 * Abs(ret[1] * args.h.den - NarrowLo(args.h)) <= args.h.den
         /\ 2 * Abs(ret[2] * args.h.den - NarrowHi(args.h)) <= args.h.den

\* C16 witness: the range of h = 200.75 at s = 1 has been computed, and is
\* [199.8, 201.8].
C16_Witness ==
  /\ pc = "done"
  /\ args.s = Frac(32, 32)
  /\ args.h = Frac(803, 4)
  /\ ret = <<1998, 2018>>

(***************************************************************************)
(* ColorMetrics.getColorFamily                                             *)
(*                                                                         *)
(* h is a whole number of degrees, s and l are counted in hundredths, and  *)
(* a property the caller leaves out is Omitted.                            *)
(***************************************************************************)
\* A property that the argument carries, with value v
Given(v) == [undefined |-> FALSE, v |-> v]

\* A property that the argument does not carry
Omitted == [undefined |-> TRUE, v |-> 0]

\* The destructuring default { s = 1, l = 0.5 }: d when x is undefined
OrDefault(x, d) == IF x.undefined THEN d ELSE x.v

\* The JavaScript remainder a % n, which has the sign of a
Remainder(a, n) == IF a >= 0 THEN a % n ELSE -((-a) % n)

\* A hue left as the caller passed it
hueUnchanged(h) == h

\* h = (h % 360 + 360) % 360
normalizeHue(h) == Remainder(Remainder(h, 360) + 360, 360)

\* The 12 base hue families of a normalized hue
baseFamily(h) ==
  IF h >= 345 \/ h <= 15 THEN "red"
  ELSE IF h < 45 THEN "orange"
  ELSE IF h < 75 THEN "yellow"
  ELSE IF h < 105 THEN "chartreuse"
  ELSE IF h < 135 THEN "green"
  ELSE IF h < 165 THEN "springgreen"
  ELSE IF h < 195 THEN "cyan"
  ELSE IF h < 225 THEN "azure"
  ELSE IF h < 255 THEN "blue"
  ELSE IF h < 285 THEN "violet"
  ELSE IF h < 315 THEN "magenta"
  ELSE IF h < 345 THEN "rose"
  ELSE "red"

\* The rules of getColorFamily that follow the base family
specialFamily(base, s, l) ==
  IF s < 50 /\ l < 70 /\ base \in {"orange", "yellow", "red"}
    THEN (IF s < 60 /\ l < 70 THEN "brown" ELSE "earth")
  ELSE IF base \in {"red", "rose", "magenta"} /\ l > 70 /\ s > 30 /\ s < 80
    THEN "pink"
  ELSE IF base \in {"yellow", "orange"} /\ s > 20 /\ s < 70 /\ l > 50
    THEN "metallic"
  ELSE IF base \in {"orange", "yellow", "brown"}
          /\ s > 20 /\ s < 70 /\ l > 40 /\ l < 90
    THEN "skin"
  ELSE IF base \in {"red", "green", "blue", "purple", "magenta"}
          /\ s > 70 /\ l > 50
    THEN "jewel"
  ELSE IF base \in {"green", "blue", "springgreen", "cyan"}
          /\ s > 30 /\ s < 80 /\ l > 30 /\ l < 90
    THEN "nature"
  ELSE IF base \in {"red", "orange", "yellow", "green", "brown"}
          /\ s > 50 /\ l > 50
    THEN "food"
  ELSE IF base = "chartreuse" THEN "lime"
  ELSE IF base \in {"cyan", "springgreen"} THEN "teal"
  ELSE IF base = "violet" THEN "purple"
  ELSE base

\* ColorMetrics.getColorFamily({ h, s = 1, l = 0.5 })
getColorFamily(h, sArg, lArg) ==
  LET s == OrDefault(sArg, 100)
      l == OrDefault(lArg, 50)
  IN  IF l < 15 THEN "black"
      ELSE IF s < 10 THEN (IF l > 90 THEN "white" ELSE "gray")
      ELSE IF s < 30 /\ l > 60 THEN "pastel"
      ELSE IF s > 80 /\ l > 80 THEN "neon"
      ELSE specialFamily(baseFamily(normalizeHue(h)), s, l)

\* The hues passed to getColorFamily: every fifth degree of three turns
FamilyHues == {5 * n : n \in -72..144}

\* The saturations passed to getColorFamily, in hundredths, or none
FamilySaturations ==
  {Given(v) : v \in {0, 5, 10, 20, 25, 30, 40, 50, 55, 60, 70, 75, 80, 90, 100}}
    \cup {Omitted}

\* The lightnesses passed to getColorFamily, in hundredths, or none
FamilyLightnesses ==
  {Given(v) : v \in {0, 10, 15, 30, 35, 40, 50, 55, 60, 65, 70, 75, 80, 85,
                     90, 95, 100}}
    \cup {Omitted}

\* The arguments of getColorFamily
InitFamily ==
  /\ pc = "ready"
  /\ ret = <<>>
  /\ \E h \in FamilyHues, s \in FamilySaturations, l \in FamilyLightnesses :
       args = [h |-> h, s |-> s, l |-> l]

\* One call ColorMetrics.getColorFamily({ h, s, l })
GetColorFamily ==
  /\ pc = "ready"
  /\ ret' = getColorFamily(args.h, args.s, args.l)
  /\ pc' = "done"
  /\ UNCHANGED args

NextFamily == GetColorFamily

SpecFamily == InitFamily /\ [][NextFamily]_vars

\* The family that the first rules give to (s, l) in hundredths, whatever the
\* hue; "" when none of them applies
EarlyFamily(s, l) ==
  IF l < 15 THEN "black"
  ELSE IF s < 10 /\ l > 90 THEN "white"
  ELSE IF s < 10 THEN "gray"
  ELSE IF s < 30 /\ l > 60 THEN "pastel"
  ELSE IF s > 80 /\ l > 80 THEN "neon"
  ELSE ""

\* C17: getColorFamily applies its first rules in fixed precedence
\* independent of hue: l < 0.15 gives black; otherwise s < 0.1 gives white
\* when l > 0.9 and gray when not; otherwise s < 0.3 with l > 0.6 gives
\* pastel; otherwise s > 0.8 with l > 0.8 gives neon; and for every (h, s, l)
\* the result is the same for h and for h + 360 and h - 360.
C17_PrecedenceAndPeriod ==
  pc = "done" =>
    /\ EarlyFamily(OrDefault(args.s, 100), OrDefault(args.l, 50)) # "" =>
         ret = EarlyFamily(OrDefault(args.s, 100), OrDefault(args.l, 50))
    /\ ret = getColorFamily(args.h + 360, args.s, args.l)
    /\ ret = getColorFamily(args.h - 360, args.s, args.l)

\* C17 witness: a hue of 400 degrees that no early rule takes has been
\* classified like 40 degrees.
C17_Witness ==
  /\ pc = "done"
  /\ args.h = 400
  /\ args.s = Given(50)
  /\ args.l = Given(50)
  /\ ret = "skin"

(***************************************************************************)
(* ASTDetector: the pairs, color-palette and object candidates             *)
(***************************************************************************)
\* A value that looks like a hex color: 3 to 8 digits, with or without '#'
LooksLikeHex(v) == HashHex(StringOf(v), 3, 8)

\* A 2-element array in which exactly one element looks like a hex color and
\* the other is a string
ExactlyOneHexPair(item) ==
  /\ IsArray(item)
  /\ Len(item.vals) = 2
  /\ \/ /\ LooksLikeHex(item.vals[1])
        /\ ~LooksLikeHex(item.vals[2])
        /\ typeof(item.vals[2]) = "string"
     \/ /\ LooksLikeHex(item.vals[2])
        /\ ~LooksLikeHex(item.vals[1])
        /\ typeof(item.vals[1]) = "string"

\* The number of pairs that contain a full hex of 6 to 8 digits
FullHexPairs(items) ==
  Cardinality({k \in 1..Len(items) :
                 \/ HashHex(StringOf(items[k].vals[1]), 6, 8)
                 \/ HashHex(StringOf(items[k].vals[2]), 6, 8)})

\* C18: a hex-string-pairs candidate is produced only when the input is an
\* array of 2-element arrays in each of which exactly one element looks like
\* a hex color and the other is a string (a pair whose two elements both look
\* like hex colors does not qualify); its confidence is 0.8 + 0.2 * (fraction
\* of pairs containing a full 6-to-8-digit hex), the fraction being that of
\* a non-empty array.
C18_PairsHaveExactlyOneHex ==
  (pc = "done" /\ ~ret.threw) =>
    \A i \in 1..Len(ret.structures) :
      ret.structures[i].type = "pairs" =>
        /\ IsArray(args.data)
        /\ \A k \in 1..Len(args.data.vals) : ExactlyOneHexPair(args.data.vals[k])
        /\ Len(args.data.vals) > 0 =>
             LET c == ret.structures[i].confidence
                 total == Len(args.data.vals)
             IN  /\ ~c.nan
                 /\ c.up = 0
                 /\ c.num * 5 * total
                      = (4 * total + FullHexPairs(args.data.vals)) * c.den

\* The number of values of an object that are {name: string, hex: 6-hex}
MatchingValues(data) ==
  Cardinality({k \in 1..Len(data.vals) : ValidColor(data.vals[k])})

\* C19: when a palette-record (color-palette) candidate is produced, i.e. at
\* least 80% of a non-empty object's values are {name: string, hex: 6-hex},
\* its confidence equals 0.98 scaled by the fraction of values that match the
\* shape; when fewer than 80% match no palette-record candidate is produced.
C19_PaletteConfidenceScaled ==
  (pc = "done" /\ ~ret.threw /\ ~NotKeyedObject(args.data)) =>
    LET total == Len(args.data.vals)
        matching == MatchingValues(args.data)
        palette == {i \in 1..Len(ret.structures) :
                      ret.structures[i].type = "color-palette"}
    IN  IF 5 * matching >= 4 * total
        THEN /\ palette # {}
             /\ \A i \in palette :
                  LET c == ret.structures[i].confidence
                  IN  /\ ~c.nan
                      /\ c.num * 100 * total = 98 * matching * c.den
        ELSE palette = {}

\* A non-empty object whose keys are all 6-digit hex colors and whose values
\* are all strings
HexKeyedStrings(data) ==
  /\ ~NotKeyedObject(data)
  /\ data.t # "null"
  /\ \A k \in 1..Len(data.keys) :
       /\ HashHex(data.keys[k], 6, 6)
       /\ typeof(data.vals[k]) = "string"

\* C20: for every non-empty object whose keys are all 6-digit hex colors and
\* whose values are all strings, detect returns an object-entries candidate
\* with confidence 1 as top candidate, and the list contains no unknown
\* candidate ranked above it.
C20_HexKeysGiveObjectEntries ==
  (pc = "done" /\ HexKeyedStrings(args.data)) =>
    /\ ~ret.threw
    /\ Len(ret.structures) >= 1
    /\ ret.structures[1].type = "object"
    /\ ret.structures[1].confidence = Conf(Len(args.data.keys), Len(args.data.keys))
    /\ \A i \in 1..Len(ret.structures) : ret.structures[i].type # "unknown"

\* C20 witness: detect has been called on an object of two hex keys with
\* string values, such as {"#ff0000": "Red", "#00ff00": "Red"}.
C20_Witness ==
  /\ pc = "done"
  /\ HexKeyedStrings(args.data)
  /\ Len(args.data.keys) = 2
  /\ args.data.vals[1] = JsString(Red)

(***************************************************************************)
(* SpectrumAnalyzer.analyzeCoverage followed by getCriticalBuckets         *)
(***************************************************************************)
\* Bound: most colors drawn on top of the evenly spread ones
MaxExtra == 5

\* Bound: most colors per bucket of the evenly spread part of a list
MaxPerBucket == 1

\* Colors with the hsl that hexToHslMetrics gives their hex: hues 0, 14, 15,
\* 200, 359 and 360
HuePalette ==
  {Color("#ff0000", "red", 0, 100, 50), Color("#ff3b00", "red", 14, 100, 50),
   Color("#ff4000", "red", 15, 100, 50), Color("#00aaff", "azure", 200, 100, 50),
   Color("#ff0004", "red", 359, 100, 50), Color("#ff0001", "red", 360, 100, 50)}

\* k colors in the middle of every bucket (the hex is not read by the
\* analyzer)
EvenColors(k) ==
  Eager([i \in 1..(k * BucketCount) |->
           Color("", "even", ((i - 1) % BucketCount) * BUCKET_SIZE + 7, 50, 50)])

\* The color lists analyzed: an evenly spread part followed by up to MaxExtra
\* colors of HuePalette
InitSpectrum ==
  /\ pc = "ready"
  /\ ret = <<>>
  /\ \E k \in 0..MaxPerBucket, extra \in SeqsUpTo(HuePalette, MaxExtra) :
       args = [colors |-> EvenColors(k) \o extra]

\* const coverage = this.analyzer.analyzeCoverage(colors)
AnalyzeCoverage ==
  /\ pc = "ready"
  /\ ret' = [coverage |-> analyzeCoverage(args.colors), critical |-> <<>>]
  /\ pc' = "analyzed"
  /\ UNCHANGED args

\* const gaps = this.analyzer.getCriticalBuckets(coverage)
GetCriticalBuckets ==
  /\ pc = "analyzed"
  /\ ret' = [ret EXCEPT !.critical = getCriticalBuckets(ret.coverage)]
  /\ pc' = "done"
  /\ UNCHANGED args

NextSpectrum == AnalyzeCoverage \/ GetCriticalBuckets

SpecSpectrum == InitSpectrum /\ [][NextSpectrum]_vars

\* C21: analyzeCoverage always yields exactly 24 buckets keyed 0, 15, ...,
\* 345 and places every input color in the bucket floor(h / 15) * 15, so the
\* bucket densities sum to the number of input colors, for every list of
\* colors whose hue is a value hexToHslMetrics can deliver.
C21_EveryColorInItsBucket ==
  pc \in {"analyzed", "done"} =>
    LET buckets == ret.coverage.buckets
    IN  /\ Len(buckets) = 24
        /\ \A b \in 1..Len(buckets) : buckets[b].hueMin = 15 * (b - 1)
        /\ \A i \in 1..Len(args.colors) :
             \E b \in 1..Len(buckets) :
               /\ buckets[b].hueMin = (args.colors[i].hsl.h \div 15) * 15
               /\ args.colors[i] \in Range(buckets[b].colors)
        /\ SumSeq([b \in 1..Len(buckets) |-> buckets[b].density])
             = Len(args.colors)

\* The buckets that hold a color
NonEmptyBuckets(buckets) == {b \in 1..Len(buckets) : buckets[b].density >= 1}

\* C22: getCriticalBuckets returns exactly the buckets with density >= 1
\* whose density is strictly less than half the mean density taken over the
\* buckets with density >= 1 (a bucket with no colors is never reported);
\* when colors are spread evenly over all 24 buckets the result is empty.
C22_CriticalBelowHalfMean ==
  pc = "done" =>
    LET buckets == ret.coverage.buckets
        nonEmpty == NonEmptyBuckets(buckets)
        total == SumSeq([b \in 1..Len(buckets) |-> buckets[b].density])
    IN  /\ \A b \in 1..Len(buckets) :
             (buckets[b] \in Range(ret.critical)) <=>
               (b \in nonEmpty /\ 2 * buckets[b].density * Cardinality(nonEmpty) < total)
        /\ Len(ret.critical) <= Cardinality(nonEmpty)
        /\ (\A b \in 1..Len(buckets) : buckets[b].density = buckets[1].density)
             => ret.critical = <<>>

\* C22 witness: the critical buckets of a list with four colors in one bucket
\* and one in another have been computed, and the thin bucket is reported.
C22_Witness ==
  /\ pc = "done"
  /\ Len(args.colors) = 5
  /\ Len(ret.critical) = 1
  /\ ret.critical[1].density = 1

(***************************************************************************)
(* QualityScorer.scoreColor on its own                                     *)
(***************************************************************************)
\* Bound: most colors in a drawn neighbor list or family list
MaxNeighbors == 2

\* Colors scored and scored against: black, white, a medium red and cyan
ScorePalette ==
  {Color("#000000", "black", 0, 0, 0), Color("#ffffff", "white", 0, 0, 100),
   Color("#bf4040", "red", 0, 50, 50), Color("#00ffff", "cyan", 180, 100, 50)}

\* The ends of the drawn saturation and lightness ranges
RangeEnds == {0, 50, 100}

\* Every color with every neighbor list, family list and family range that
\* holds the color's saturation and lightness
InitScore ==
  /\ pc = "ready"
  /\ ret = <<>>
  /\ \E color \in ScorePalette,
        nearbyColors \in SeqsUpTo(ScorePalette, MaxNeighbors),
        familyColors \in SeqsUpTo(ScorePalette, MaxNeighbors),
        sMin \in RangeEnds, sMax \in RangeEnds, lMin \in RangeEnds, lMax \in RangeEnds :
       /\ sMin <= color.hsl.s /\ color.hsl.s <= sMax
       /\ lMin <= color.hsl.l /\ color.hsl.l <= lMax
       /\ args = [color |-> color, nearbyColors |-> nearbyColors,
                  familyColors |-> familyColors,
                  spectralRanges |-> [hMin |-> color.hsl.h, hMax |-> color.hsl.h,
                                      sMin |-> sMin, sMax |-> sMax,
                                      lMin |-> lMin, lMax |-> lMax]]

\* One call this.scorer.scoreColor(color, nearbyColors, familyColors, ranges)
ScoreColor ==
  /\ pc = "ready"
  /\ ret' = scoreColor(args.color, args.nearbyColors, args.familyColors,
                       args.spectralRanges)
  /\ pc' = "done"
  /\ UNCHANGED args

NextScore == ScoreColor

SpecScore == InitScore /\ [][NextScore]_vars

\* A component score that is a number of [0, 1]
UnitScore(x) == ~x.nan /\ 0 <= x.v /\ x.v <= One

\* C23: scoreColor never yields NaN: for every color, neighbor list, family
\* list and family range with sMin <= s <= sMax and lMin <= l <= lMax
\* (including sMin = sMax, and empty neighbor or family lists) each of the
\* four component scores lies in [0, 1] and overallScore is an integer in
\* 0..100.
C23_ScoresAreNumbers ==
  pc = "done" =>
    /\ UnitScore(ret.uniqueness)
    /\ UnitScore(ret.saturationQuality)
    /\ UnitScore(ret.lightnessQuality)
    /\ UnitScore(ret.familyRepresentativity)
    /\ ~ret.overallScore.nan
    /\ ret.overallScore.v \in 0..100

(***************************************************************************)
(* SemanticDeduplicator: the output as a whole, and winner selection       *)
(***************************************************************************)
\* C24: after deduplicate, for any input list and any priorityColors, every
\* output record is one of the input records, no two output records share a
\* lower-cased hex, and no two output records with non-empty names share a
\* lower-cased name.
C24_OutputIsDuplicateFreeSubset ==
  pc = "done" =>
    /\ \A i \in 1..Len(ret.colors) : ret.colors[i] \in Range(args.colors)
    /\ \A i, j \in 1..Len(ret.colors) :
         i # j => toLowerCase(ret.colors[i].hex) # toLowerCase(ret.colors[j].hex)
    /\ \A i, j \in 1..Len(ret.colors) :
         (i # j /\ ret.colors[i].name # <<>> /\ ret.colors[j].name # <<>>)
           => toLowerCase(ret.colors[i].name) # toLowerCase(ret.colors[j].name)

\* C24 witness: a call with a priority list whose three records had two hex
\* values and one name up to letter case, collapsed to one record.
C24_Witness ==
  /\ pc = "done"
  /\ args.priorityColors # <<>>
  /\ Len(args.colors) = 3
  /\ Cardinality({toLowerCase(args.colors[i].hex) : i \in 1..3}) = 2
  /\ Cardinality({args.colors[i].name : i \in 1..3}) = 2
  /\ Cardinality({toLowerCase(args.colors[i].name) : i \in 1..3}) = 1
  /\ Len(ret.colors) = 1

\* Steps 1 and 2 of selectOptimalColors: the quality-truncated sets, as
\* selectOptimalColors forms them
TruncatedSets(scoredColors, targetCount) ==
  LET familiesMap == GroupsOf(scoredColors,
                       Eager([i \in 1..Len(scoredColors) |-> scoredColors[i].color.family]),
                       Eager([i \in 1..Len(scoredColors) |-> FALSE]))
  IN  UNION {{Prefix(sortedByScore, targetCount) :
                sortedByScore \in sortByOverallScore(selected)} :
               selected \in FamilyRepresentation(familiesMap, 1, targetCount)}

\* The backfill as C25 states it, from critical bucket g on: a bucket with an
\* excluded color in its hue range gets the best-scoring one inserted, and
\* the set is re-sorted and re-truncated, however many records it holds
RECURSIVE Backfilled(_, _, _, _, _)
Backfilled(final, removed, gapBuckets, g, targetCount) ==
  IF g > Len(gapBuckets) THEN {final}
  ELSE LET inBucket == SelectSeq(removed, LAMBDA sc :
                         /\ sc.color.hsl.h >= gapBuckets[g].hueMin
                         /\ sc.color.hsl.h < gapBuckets[g].hueMax)
       IN  IF Len(inBucket) > 0
           THEN UNION {UNION {Backfilled(Prefix(refilled, targetCount), removed,
                                         gapBuckets, g + 1, targetCount) :
                                refilled \in sortByOverallScore(Append(final, candidates[1]))} :
                         candidates \in sortByOverallScore(inBucket)}
           ELSE Backfilled(final, removed, gapBuckets, g + 1, targetCount)

\* The critical buckets of a truncated set that the backfill visits
VisitedGaps(final, targetCount) ==
  Prefix(getCriticalBuckets(analyzeCoverage(Eager([i \in 1..Len(final) |-> final[i].color]))),
         (targetCount + 19) \div 20)

\* The scored colors that are not in final
Excluded(final, scoredColors) ==
  SelectSeq(scoredColors, LAMBDA sc :
    ~\E f \in 1..Len(final) : final[f].color.hex = sc.color.hex)

\* The data prune returns when the backfill is done as C25 states it
BackfilledData(colors, targetCount) ==
  LET scoredColors == scoreAllColors(colors, analyzeCoverage(colors))
  IN  UNION {{Eager([i \in 1..Len(sel) |-> sel[i].color]) :
                sel \in Backfilled(final, Excluded(final, scoredColors),
                                   VisitedGaps(final, targetCount), 1, targetCount)} :
               final \in TruncatedSets(scoredColors, targetCount)}

\* C25: for each of the first ceil(0.05 * targetCount) critical hue buckets
\* of the quality-truncated set that has a previously excluded color in its
\* hue range, the best-scoring such color is inserted and the set is
\* re-sorted by overallScore and re-truncated to targetCount; this also
\* happens when the truncated set already holds targetCount records, so an
\* excluded candidate that out-scores the lowest kept record ends up in the
\* result.
C25_BackfillAlsoWhenFull ==
  pc = "done" => ret.data \in BackfilledData(args.colors, args.targetCount)

\* Bound: most members of a group drawn for a selectBestName call
MaxGroup == 57

\* Bound: most freely drawn members at the front of a drawn group
MaxHead == 3

\* Names of the members of the short groups: empty, or of five letters
SelectNames == {<<>>, <<"a", "a", "a", "a", "a">>, <<"b", "b", "b", "b", "b">>}

\* The name of ten letters, which gets the greatest length score
TenLetters == <<"c", "c", "c", "c", "c", "c", "c", "c", "c", "c">>

SelectRecords == [hex : {<<"#", "f", "0", "0">>, <<"#", "0", "f", "0">>}, name : SelectNames]

\* The priorityColors drawn: none, or one record that differs in case from
\* the member it names
SelectPriorities == {<<>>, <<[hex |-> <<"#", "F", "0", "0">>, name |-> <<>>]>>}

\* The semantic score of every name: 0 or 100
SelectOracles == [SelectNames \cup {TenLetters} -> SemanticScores]

\* n copies of one record
Padding(filler, n) == Eager([i \in 1..n |-> filler])

\* The first and last members of the long groups
LongEnds ==
  {[hex |-> <<"#", "f", "0", "0">>, name |-> <<>>],
   [hex |-> <<"#", "0", "f", "0">>, name |-> <<"a", "a", "a", "a", "a">>]}

\* The groups drawn: every list of 2..MaxHead members, and the long groups
\* made of at most one member, copies of an unnamed filler, and one member
\* (the ten-letter name at the front only)
LongGroups ==
  {head \o Padding([hex |-> <<"#", "0", "f", "0">>, name |-> <<>>], n - Len(head) - 1) \o <<last>> :
     head \in SeqsUpTo(LongEnds \cup {[hex |-> <<"#", "0", "f", "0">>, name |-> TenLetters]}, 1),
     last \in LongEnds,
     n \in {MaxGroup - 1, MaxGroup}}

InitSelect ==
  /\ pc = "ready"
  /\ ret = <<>>
  /\ \E group \in (SeqsUpTo(SelectRecords, MaxHead) \cup LongGroups),
        pr \in SelectPriorities, oracle \in SelectOracles :
       /\ Len(group) >= 2
       /\ args = [group |-> group, priorityColors |-> pr, oracle |-> oracle]

\* One call this.selectBestName(group, priorityColors)
SelectBestName ==
  /\ pc = "ready"
  /\ ret' = selectBestName(args.group, args.priorityColors, args.oracle)
  /\ pc' = "done"
  /\ UNCHANGED args

NextSelect == SelectBestName

SpecSelect == InitSelect /\ [][NextSelect]_vars

\* The scores calculateScore gives the members of the drawn group
GroupScores ==
  Eager([i \in 1..Len(args.group) |->
    calculateScore(args.group[i], args.group, i, args.priorityColors, args.oracle)])

\* The members are equal on every term but the ordinal one
EqualButForPosition ==
  \A i, j \in 1..Len(args.group) :
    /\ InPriority(args.group[i], args.priorityColors)
         <=> InPriority(args.group[j], args.priorityColors)
    /\ scoreSemanticMatch(args.oracle, args.group[i])
         = scoreSemanticMatch(args.oracle, args.group[j])
    /\ args.group[i].name = args.group[j].name

\* C26: in winner selection, when all members of a duplicate group are equal
\* on every other term (same priority membership, same semantic score, same
\* name), the earliest-listed member is selected; more generally
\* selectBestName returns a member with the maximum score and, among members
\* with exactly equal scores, the one listed first.
C26_FirstOfTheBestScored ==
  pc = "done" =>
    /\ EqualButForPosition => ret = args.group[1]
    /\ \E scores \in {GroupScores} :
         \E idx \in 1..Len(args.group) :
           /\ ret = args.group[idx]
           /\ \A j \in 1..Len(args.group) : scores[j] <= scores[idx]
           /\ \A j \in 1..(idx - 1) : scores[j] < scores[idx]

\* C26 witness: two different members share the maximum score and the one
\* listed first has been selected.
C26_Witness ==
  /\ pc = "done"
  /\ Len(args.group) <= MaxHead
  /\ \E scores \in {GroupScores} :
       \E i, j \in 1..Len(args.group) :
         /\ i < j
         /\ args.group[i] # args.group[j]
         /\ scores[i] = scores[j]
         /\ \A k \in 1..Len(args.group) : scores[k] <= scores[i]
         /\ ret = args.group[i]

\* The positions of the members whose (hex, name) pair is in priorityColors
PriorityMembers ==
  {i \in 1..Len(args.group) : InPriority(args.group[i], args.priorityColors)}

\* C27: in a duplicate group of at most 56 members in which exactly one
\* member's (hex, name) pair occurs case-insensitively in priorityColors,
\* that member is selected by selectBestName, for every assignment of
\* semantic scores in 0..100 and every choice of names and positions of the
\* other members.
C27_PriorityMemberSelected ==
  (pc = "done" /\ Len(args.group) <= 56 /\ Cardinality(PriorityMembers) = 1) =>
    \A i \in PriorityMembers : ret = args.group[i]

\* C27 witness: the priority member is the last of 56, behind a member of
\* semantic score 100 with a ten-letter name that no other name resembles,
\* and has been selected.
C27_Witness ==
  /\ pc = "done"
  /\ Len(args.group) = 56
  /\ PriorityMembers = {56}
  /\ Len(args.group[1].name) = 10
  /\ args.oracle[args.group[1].name] = 100
  /\ args.oracle[args.group[56].name] = 0
  /\ ret = args.group[56]
  /\ \E scores \in {GroupScores} : scores[56] = scores[1] + 5

(***************************************************************************)
(* RecalcCommand.recalculateFromHex                                        *)
(*                                                                         *)
(* A record is [hex, family], family being NoFamily for a record without   *)
(* one.  The recalculated hsl holds the fractions metrics.h / 360,         *)
(* metrics.s / 100 and metrics.l / 100.                                    *)
(***************************************************************************)
\* Bound: most records of a recalculated dataset
MaxRecords == 2

\* The family of a record that has none (color.family is undefined)
NoFamily == [undefined |-> TRUE, v |-> ""]

\* The two-digit channels of the hex values drawn
RecalcChannels == {<<"0", "0">>, <<"5", "5">>, <<"f", "f">>}

\* The records drawn: every color of three drawn channels, with a family of
\* its own or without one
RecalcRecords ==
  {[hex |-> <<"#">> \o r \o g \o b, family |-> f] :
     r \in RecalcChannels, g \in RecalcChannels, b \in RecalcChannels,
     f \in {NoFamily, Given("custom")}}

\* The integer part of a fraction n / d >= 0.  getColorFamily compares its
\* hue with whole numbers of degrees only, after (h % 360 + 360) % 360, so a
\* hue of [0, 360] is passed to the model of getColorFamily by its integer
\* part whenever no hue above 15 and below 345 has a fractional part
WholePart(f) == f.num \div f.den

\* A fraction of [0, 1] that is a whole number of hundredths, in hundredths
Hundredths(f) == (100 * f.num) \div f.den

\* The callback of data.map in recalculateFromHex; hexToRgb and
\* hexToHslMetrics do not throw on a string
recalculateRecord(color) ==
  LET rgb     == hexToRgb(color.hex)
      metrics == hexToHslMetrics(color.hex)
      hsl     == [h |-> Frac(metrics.h, 360),
                  s |-> Frac(metrics.s, 100),
                  l |-> Frac(metrics.l, 100)]
  IN  [hex |-> color.hex,
       family |-> IF color.family.undefined
                  THEN getColorFamily(WholePart(hsl.h), Given(Hundredths(hsl.s)),
                                      Given(Hundredths(hsl.l)))
                  ELSE color.family.v,
       hueRange |-> metrics.hueRange,
       hsl |-> hsl,
       rgb |-> rgb]

\* RecalcCommand.recalculateFromHex(data, logger)
recalculateFromHex(data) ==
  [stats |-> [total |-> Len(data),
              recalculated |-> [rgb |-> Len(data), hsl |-> Len(data),
                                hueRange |-> Len(data)],
              errors |-> 0],
   data |-> Eager([i \in 1..Len(data) |-> Once(recalculateRecord, data[i])])]

InitRecalc ==
  /\ pc = "ready"
  /\ ret = <<>>
  /\ \E data \in SeqsUpTo(RecalcRecords, MaxRecords) : args = [data |-> data]

\* const result = this.recalculateFromHex(colors, logger)
RecalculateFromHex ==
  /\ pc = "ready"
  /\ ret' = recalculateFromHex(args.data)
  /\ pc' = "done"
  /\ UNCHANGED args

NextRecalc == RecalculateFromHex

SpecRecalc == InitRecalc /\ [][NextRecalc]_vars

\* The family getColorFamily returns for the HSL of a hex, the hue in
\* degrees and the saturation and lightness as fractions of 1
FamilyOfHex(hex) ==
  LET metrics == hexToHslMetrics(hex)
  IN  getColorFamily(metrics.h, Given(metrics.s), Given(metrics.l))

\* C28: recalculateFromHex gives every record that has no family the family
\* that getColorFamily returns for the HSL of the record's hex with hue in
\* degrees (0..360) and saturation and lightness as fractions, i.e. the same
\* family as familyOf applied to the color's true hue.
C28_FamilyOfTrueHue ==
  pc = "done" =>
    \A i \in 1..Len(args.data) :
      args.data[i].family.undefined
        => ret.data[i].family = Once(FamilyOfHex, args.data[i].hex)

(***************************************************************************)
(* SortCommand.sortData                                                    *)
(*                                                                         *)
(* A record is [name, hex, family, hsl]; a record without family has the   *)
(* empty family.  hsl.h and hsl.l are integers.                            *)
(***************************************************************************)
\* Bound: most records of a sorted dataset
MaxSort == 3

\* The UTF-16 code unit of a character of the lower-cased names and hex
\* values drawn
CodeUnit(c) ==
  CASE c = "#" -> 35 [] c = "0" -> 48 [] c = "a" -> 97 [] c = "b" -> 98
    [] c = "f" -> 102

\* aKey < bKey on strings: the order of the code units
RECURSIVE StringLess(_, _)
StringLess(a, b) ==
  IF b = <<>> THEN FALSE
  ELSE IF a = <<>> THEN TRUE
  ELSE IF a[1] = b[1] THEN StringLess(Tail(a), Tail(b))
  ELSE CodeUnit(a[1]) < CodeUnit(b[1])

\* Array.prototype.sort with a consistent comparator, Less(a, b) standing
\* for a negative result: the sort is stable, so position p holds the
\* element with p - 1 elements ahead of it
StableSort(seq, Less(_, _)) ==
  LET ahead(i) == Cardinality({j \in 1..Len(seq) :
                    \/ Less(seq[j], seq[i])
                    \/ (~Less(seq[i], seq[j]) /\ j < i)})
  IN  Eager([p \in 1..Len(seq) |-> seq[CHOOSE i \in 1..Len(seq) : ahead(i) = p - 1]])

\* Array.prototype.reverse
Reverse(seq) == Eager([i \in 1..Len(seq) |-> seq[Len(seq) + 1 - i]])

\* flatMap over a list of lists
RECURSIVE Flatten(_)
Flatten(lists) == IF lists = <<>> THEN <<>> ELSE Head(lists) \o Flatten(Tail(lists))

\* SortCommand.getSortKey for the fields that give a string
getSortKey(color, sortBy) ==
  CASE sortBy = "family" -> toLowerCase(color.family)
    [] sortBy = "name" -> toLowerCase(color.name)
    [] sortBy = "hex" -> toLowerCase(color.hex)
    [] sortBy = "hue" -> color.hsl.h

\* The comparator of the sorts inside a family and inside a hue block:
\* lightness first, then hue
LightnessThenHue(a, b) ==
  IF a.hsl.l # b.hsl.l THEN a.hsl.l < b.hsl.l ELSE a.hsl.h < b.hsl.h

\* color.family || 'unknown'
FamilyOrUnknown(color) ==
  IF color.family = <<>> THEN <<"u", "n", "k", "n", "o", "w", "n">> ELSE color.family

\* familyAverages[a] - familyAverages[b] < 0 on two groups
AverageHueLess(a, b) ==
  SumSeq([i \in 1..Len(a.group) |-> a.group[i].hsl.h]) * Len(b.group)
    < SumSeq([i \in 1..Len(b.group) |-> b.group[i].hsl.h]) * Len(a.group)

\* The branch sortBy === 'family' before the reversal
sortByFamily(data) ==
  LET families == GroupsOf(data, Eager([i \in 1..Len(data) |-> FamilyOrUnknown(data[i])]),
                           Eager([i \in 1..Len(data) |-> FALSE]))
      sortedFamilies == StableSort(families, AverageHueLess)
  IN  Flatten(Eager([f \in 1..Len(sortedFamilies) |->
                StableSort(sortedFamilies[f].group, LightnessThenHue)]))

\* const HUE_BLOCK_SIZE = 30
HUE_BLOCK_SIZE == 30

\* The branch sortBy === 'hue' before the reversal; a block is keyed by
\* Math.floor(hue / HUE_BLOCK_SIZE)
sortByHue(data) ==
  LET hueBlocks == GroupsOf(data,
                     Eager([i \in 1..Len(data) |-> data[i].hsl.h \div HUE_BLOCK_SIZE]),
                     Eager([i \in 1..Len(data) |-> FALSE]))
      sortedBlocks == StableSort(hueBlocks, LAMBDA a, b : a.key < b.key)
  IN  Flatten(Eager([k \in 1..Len(sortedBlocks) |->
                StableSort(sortedBlocks[k].group, LightnessThenHue)]))

\* The simple branch: [...data].sort by the string key, the comparator's
\* sign flipped by reverse
sortByKey(data, sortBy, reverse) ==
  StableSort(data, LAMBDA a, b :
    IF reverse THEN StringLess(getSortKey(b, sortBy), getSortKey(a, sortBy))
    ELSE StringLess(getSortKey(a, sortBy), getSortKey(b, sortBy)))

\* SortCommand.sortData(data, sortBy, reverse, logger)
sortData(data, sortBy, reverse) ==
  LET sorted ==
        IF sortBy = "family"
        THEN (IF reverse THEN Reverse(sortByFamily(data)) ELSE sortByFamily(data))
        ELSE IF sortBy = "hue"
        THEN (IF reverse THEN Reverse(sortByHue(data)) ELSE sortByHue(data))
        ELSE sortByKey(data, sortBy, reverse)
  IN  [data |-> sorted,
       stats |-> [original |-> Len(data),
                  sorted |-> Len(sorted),
                  field |-> sortBy,
                  reverse |-> reverse,
                  uniqueValues |->
                    Cardinality({getSortKey(sorted[i], sortBy) : i \in 1..Len(sorted)})]]

SortRecord(name, hex, family, h, l) ==
  [name |-> name, hex |-> hex, family |-> family, hsl |-> [h |-> h, l |-> l]]

\* The records drawn: names, hex values and families equal up to letter
\* case, equal hues with different lightness, and one record without family
SortRecords ==
  {SortRecord(<<"a">>, <<"#", "0", "f">>, <<"r">>, 0, 80),
   SortRecord(<<"A">>, <<"#", "0", "F">>, <<"r">>, 0, 20),
   SortRecord(<<"b">>, <<"#", "f", "0">>, <<"R">>, 40, 20),
   SortRecord(<<"b">>, <<"#", "0", "f">>, <<"b">>, 200, 20),
   SortRecord(<<"B">>, <<"#", "F", "0">>, <<"b">>, 40, 80),
   SortRecord(<<"a">>, <<"#", "f", "0">>, <<>>, 200, 80)}

InitSort ==
  /\ pc = "ready"
  /\ ret = <<>>
  /\ \E data \in SeqsUpTo(SortRecords, MaxSort),
        sortBy \in {"family", "name", "hex", "hue"}, reverse \in BOOLEAN :
       args = [data |-> data, sortBy |-> sortBy, reverse |-> reverse]

\* const result = this.sortData(colors, sortBy, reverse, logger)
SortData ==
  /\ pc = "ready"
  /\ ret' = sortData(args.data, args.sortBy, args.reverse)
  /\ pc' = "done"
  /\ UNCHANGED args

NextSort == SortData

SpecSort == InitSort /\ [][NextSort]_vars

\* C29: sortData is a stable sort: for every sort field (family, name, hex,
\* hue) and both directions, the output is a permutation of the input in
\* which any two records with equal sort key keep their relative input
\* order.
C29_StableSort ==
  pc = "done" =>
    \E p \in Permutations(1..Len(args.data)) :
      /\ Len(ret.data) = Len(args.data)
      /\ \A i \in 1..Len(args.data) : ret.data[i] = args.data[p[i]]
      /\ \A i, j \in 1..Len(args.data) :
           (i < j /\ getSortKey(args.data[p[i]], args.sortBy)
                       = getSortKey(args.data[p[j]], args.sortBy))
             => p[i] < p[j]

(***************************************************************************)
(* PipeHandler.readFromStdin                                               *)
(*                                                                         *)
(* args holds what the environment will do: whether stdin is a TTY, the    *)
(* chunks the stream will deliver and whether the writer ever closes it.   *)
(* ret holds the state of the call: stdinBuffer, the promise, the timer    *)
(* and the stream (how many chunks were read, whether 'end' was emitted).  *)
(***************************************************************************)
\* Bound: most chunks the stream delivers
MaxChunks == 2

\* The chunks drawn: white space, text, and text followed by white space
ChunkPool == {<<" ">>, <<"a">>, <<"b", " ">>}

\* The value null, and a string value
Null == [null |-> TRUE, s |-> <<>>]

StringValue(s) == [null |-> FALSE, s |-> s]

\* A promise that is not settled, and one resolved with a value
Pending == [state |-> "pending", value |-> Null]

\* A resolve that replaces the value of a settled promise
resolveOverwriting(promise, value) == [state |-> "resolved", value |-> value]

\* resolve(value): settles a pending promise and leaves a settled one alone
resolve(promise, value) ==
  IF promise.state = "pending" THEN [state |-> "resolved", value |-> value]
  ELSE promise

\* this.stdinBuffer.trim() || null
TrimOrNull(buffer) == IF trim(buffer) = <<>> THEN Null ELSE StringValue(trim(buffer))

\* The concatenation of chunks[from..to]
RECURSIVE JoinChunks(_, _, _)
JoinChunks(chunks, from, to) ==
  IF from > to THEN <<>> ELSE chunks[from] \o JoinChunks(chunks, from + 1, to)

\* A PipeHandler after construction, no call made yet
InitPipe ==
  /\ pc = "ready"
  /\ \E isTTY \in BOOLEAN, chunks \in SeqsUpTo(ChunkPool, MaxChunks), closes \in BOOLEAN :
       args = [isTTY |-> isTTY, chunks |-> chunks, closes |-> closes]
  /\ ret = [stdinBuffer |-> <<>>, promise |-> Pending, timer |-> "unset",
            listening |-> FALSE, read |-> 0, ended |-> FALSE]

\* The call readFromStdin(): the executor of the promise runs at once; on a
\* TTY it resolves null and returns, otherwise it registers the 'readable'
\* and 'end' listeners and starts the 1000 ms timer
ReadFromStdin ==
  /\ pc = "ready"
  /\ pc' = "called"
  /\ ret' = IF args.isTTY
            THEN [ret EXCEPT !.promise = resolve(ret.promise, Null)]
            ELSE [ret EXCEPT !.listening = TRUE, !.timer = "armed"]
  /\ UNCHANGED args

\* The 'readable' listener: reads every chunk that has arrived, with or
\* without a settled promise
OnReadable ==
  /\ pc = "called" /\ ret.listening /\ ~ret.ended
  /\ \E upTo \in (ret.read + 1)..Len(args.chunks) :
       ret' = [ret EXCEPT !.stdinBuffer = @ \o JoinChunks(args.chunks, ret.read + 1, upTo),
                          !.read = upTo]
  /\ UNCHANGED <<pc, args>>

\* The 'end' listener: emitted once, after the last chunk was read, if the
\* writer closes the stream
OnEnd ==
  /\ pc = "called" /\ ret.listening /\ ~ret.ended
  /\ args.closes /\ ret.read = Len(args.chunks)
  /\ ret' = [ret EXCEPT !.ended = TRUE,
                        !.promise = resolve(ret.promise, TrimOrNull(ret.stdinBuffer))]
  /\ UNCHANGED <<pc, args>>

\* The callback of setTimeout(..., 1000)
OnTimeout ==
  /\ pc = "called" /\ ret.timer = "armed"
  /\ ret' = [ret EXCEPT !.timer = "fired",
                        !.promise = resolve(ret.promise, TrimOrNull(ret.stdinBuffer))]
  /\ UNCHANGED <<pc, args>>

NextPipe == ReadFromStdin \/ OnReadable \/ OnEnd \/ OnTimeout

SpecPipe == InitPipe /\ [][NextPipe]_vars

\* A timer that was started fires: the event loop runs the callback of
\* setTimeout once the delay has passed.  Nothing makes the stream end.
SpecPipeFair == SpecPipe /\ WF_vars(OnTimeout)

\* The promise of the call is settled
Settled == ret.promise.state = "resolved"

\* C30: readFromStdin always eventually resolves and its value is fixed by
\* the first resolving event: it resolves null at once when stdin is a TTY;
\* otherwise it resolves with the trimmed buffer (or null when empty) at the
\* 'end' event or when the 1000 ms timer fires, whichever comes first, even
\* if 'end' never arrives, and chunks read after that point change the
\* buffer but not the resolved value.
C30_ResolvesOnceWithTrimmedBuffer ==
  /\ (pc = "called") ~> Settled
  /\ []((pc = "called" /\ args.isTTY) => ret.promise = [state |-> "resolved", value |-> Null])
  /\ [][Settled => ret'.promise = ret.promise]_vars
  /\ [][(pc = "called" /\ ~Settled /\ Settled') =>
          /\ ret'.promise.value = TrimOrNull(ret.stdinBuffer)
          /\ \/ (~ret.ended /\ ret'.ended)
             \/ (ret.timer = "armed" /\ ret'.timer = "fired")]_vars
  /\ [][(pc = "called" /\ ~Settled /\ ~args.isTTY /\
          ((~ret.ended /\ ret'.ended) \/ (ret.timer = "armed" /\ ret'.timer = "fired")))
          => Settled']_vars

\* C30 witness: the stream never ends, the timer resolved the promise with
\* the text read until then, and a chunk read afterwards changed the buffer.
C30_Witness ==
  /\ pc = "called"
  /\ ~args.closes
  /\ ret.timer = "fired"
  /\ ret.promise = [state |-> "resolved", value |-> StringValue(<<"a">>)]
  /\ ret.stdinBuffer = <<"a", "b", " ">>

====
